---------------------------- MODULE Spec2Model ----------------------------
(***************************************************************************)
(* A model of rename-files.mjs (normalize-filename-dates): the recognizer  *)
(* chain that extracts a date from a file name, the shared helpers         *)
(* (normalizeYear, cleanupFilename, isValidDate) and the directory walk of *)
(* main / processDirectory.                                                *)
(*                                                                         *)
(* File names are TLA+ strings; a character is a string of length one.     *)
(* Every regular expression of the source is written out as a matcher      *)
(* "<name>At(s, i)" (the match that starts at position i, following the    *)
(* backtracking priorities of the JavaScript engine: greedy quantifiers    *)
(* longest first, alternatives in the order written) and the leftmost      *)
(* position with a match is taken, as String.prototype.match does.         *)
(***************************************************************************)
EXTENDS Integers, Sequences, FiniteSets, TLC

VARIABLES
  currentYear,    \* const currentYear = new Date().getFullYear()
  run,            \* which run of the program this is (1 for the first)
  fn,             \* the pure function applied last ("" before any)
  arg,            \* its argument(s)
  out,            \* its result
  argv,           \* process.argv.slice(2)
  disk,           \* the file system: path |-> [isDirectory, entries]
  pc,             \* where main / processDirectory stands (at its awaits)
  dryRun,         \* main: let dryRun
  debugMode,      \* let debugMode
  directories,    \* main: const directories
  dirIdx,         \* main: the position of "for (const directory of directories)"
  files,          \* processDirectory: const files
  fileIdx,        \* processDirectory: the position of "for (const oldFilename of files)"
  renamedCount,   \* processDirectory: let renamedCount
  skippedCount,   \* processDirectory: let skippedCount
  errorCount,     \* processDirectory: let errorCount
  totalStats,     \* const totalStats
  awaited,        \* processDirectory: result and newFilename, while fs.rename is awaited
  log             \* what the run reported of each file, in order

-----------------------------------------------------------------------------
(* Bounds of the model *)

\* The latest calendar year the run may take place in.
MaxCurrentYear == 2026

\* The number of pieces a file name is put together from, at most.
MaxParts == 2

\* The number of entries of the directory the run works on, at most.
MaxFiles == 2

\* The number of times the program is run on the same file system, at most.
MaxRuns == 2

\* The length of the strings cleanupFilename is applied to, at most.
MaxCleanupLen == 4

-----------------------------------------------------------------------------
(* Strings *)

Digit == {"0", "1", "2", "3", "4", "5", "6", "7", "8", "9"}

\* \s of the regular expressions, restricted to the white space that the
\* names of the model contain.
Whitespace == {" ", "\t"}

\* The character of s at position i (1-based); "" outside of s.
Char(s, i) == IF i >= 1 /\ i <= Len(s) THEN SubSeq(s, i, i) ELSE ""

Min(S) == CHOOSE x \in S : \A y \in S : x <= y

Max(S) == CHOOSE x \in S : \A y \in S : x >= y

\* First element of the priority list seq that satisfies P; 0 when none does.
\* (The lists hold positive numbers only.)
FirstSuch(seq, P(_)) ==
  LET I == {k \in 1..Len(seq) : P(seq[k])}
  IN  IF I = {} THEN 0 ELSE seq[Min(I)]

\* \d{k} at position i.
Digits(s, i, k) == i + k - 1 <= Len(s) /\ \A j \in i..(i + k - 1) : Char(s, j) \in Digit

\* Length of the longest run of characters of class cls that starts at i.
RECURSIVE RunLen(_, _, _)
RunLen(s, i, cls) == IF Char(s, i) \in cls THEN 1 + RunLen(s, i + 1, cls) ELSE 0

\* String.prototype.indexOf: 0-based index of the first occurrence, -1 if none.
RECURSIVE indexOfFrom(_, _, _)
indexOfFrom(s, t, i) ==
  IF i + Len(t) - 1 > Len(s) THEN -1
  ELSE IF SubSeq(s, i, i + Len(t) - 1) = t THEN i - 1
  ELSE indexOfFrom(s, t, i + 1)

indexOf(s, t) == indexOfFrom(s, t, 1)

\* String.prototype.substring(start, end) and substring(start), 0-based.
substring(s, start, end) ==
  LET a == IF start < 0 THEN 0 ELSE IF start > Len(s) THEN Len(s) ELSE start
      b == IF end < 0 THEN 0 ELSE IF end > Len(s) THEN Len(s) ELSE end
  IN  IF a <= b THEN SubSeq(s, a + 1, b) ELSE SubSeq(s, b + 1, a)

substringFrom(s, start) == substring(s, start, Len(s))

\* String.prototype.padStart(2, '0').
padStart2(s) == IF Len(s) >= 2 THEN s ELSE IF Len(s) = 1 THEN "0" \o s ELSE "00"

UpperToLower ==
  [c \in {"A", "B", "C", "D", "E", "F", "G", "H", "I", "J", "K", "L", "M", "N",
          "O", "P", "Q", "R", "S", "T", "U", "V", "W", "X", "Y", "Z", "Ä", "Ö", "Ü"} |->
     CASE c = "A" -> "a" [] c = "B" -> "b" [] c = "C" -> "c" [] c = "D" -> "d"
       [] c = "E" -> "e" [] c = "F" -> "f" [] c = "G" -> "g" [] c = "H" -> "h"
       [] c = "I" -> "i" [] c = "J" -> "j" [] c = "K" -> "k" [] c = "L" -> "l"
       [] c = "M" -> "m" [] c = "N" -> "n" [] c = "O" -> "o" [] c = "P" -> "p"
       [] c = "Q" -> "q" [] c = "R" -> "r" [] c = "S" -> "s" [] c = "T" -> "t"
       [] c = "U" -> "u" [] c = "V" -> "v" [] c = "W" -> "w" [] c = "X" -> "x"
       [] c = "Y" -> "y" [] c = "Z" -> "z" [] c = "Ä" -> "ä" [] c = "Ö" -> "ö"
       [] c = "Ü" -> "ü"]

lowerChar(c) == IF c \in DOMAIN UpperToLower THEN UpperToLower[c] ELSE c

\* String.prototype.toLowerCase.
RECURSIVE toLowerCase(_)
toLowerCase(s) ==
  IF Len(s) = 0 THEN "" ELSE lowerChar(Char(s, 1)) \o toLowerCase(SubSeq(s, 2, Len(s)))

Letter == {lowerChar(c) : c \in DOMAIN UpperToLower} \cup DOMAIN UpperToLower \cup {"ß"}

\* \w of the regular expressions ([A-Za-z0-9_]: the umlauts are not in it).
WordChar == (Letter \ {"ä", "ö", "ü", "Ä", "Ö", "Ü", "ß"}) \cup Digit \cup {"_"}

DigitValue(c) ==
  CASE c = "0" -> 0 [] c = "1" -> 1 [] c = "2" -> 2 [] c = "3" -> 3 [] c = "4" -> 4
    [] c = "5" -> 5 [] c = "6" -> 6 [] c = "7" -> 7 [] c = "8" -> 8 [] c = "9" -> 9

DigitChars == <<"0", "1", "2", "3", "4", "5", "6", "7", "8", "9">>

RECURSIVE DigitsValue(_, _)
DigitsValue(s, n) ==
  IF n = 0 THEN 0 ELSE 10 * DigitsValue(s, n - 1) + DigitValue(Char(s, n))

\* parseInt(s, 10): the value of the longest prefix of digits after leading
\* white space and an optional sign; NaN when there is no digit there.
parseInt(s) ==
  LET w == RunLen(s, 1, Whitespace)
      sign == IF Char(s, w + 1) \in {"+", "-"} THEN 1 ELSE 0
      t == SubSeq(s, w + sign + 1, Len(s))
      n == RunLen(t, 1, Digit)
      v == DigitsValue(t, n)
  IN  [nan |-> n = 0, v |-> IF Char(s, w + 1) = "-" THEN 0 - v ELSE v]

\* Number.prototype.toString of a non-negative integer.
RECURSIVE toString(_)
toString(n) ==
  IF n < 10 THEN DigitChars[n + 1] ELSE toString(n \div 10) \o DigitChars[(n % 10) + 1]

-----------------------------------------------------------------------------
(* Shared helpers *)

\* The keys of GERMAN_MONTHS in insertion order, which is the order of the
\* alternatives of MONTH_NAMES_PATTERN ('mai' is written twice and is one key).
MONTH_NAMES_PATTERN ==
  <<"januar", "februar", "märz", "april", "mai", "juni", "juli", "august",
    "september", "oktober", "november", "dezember",
    "jan", "feb", "mär", "apr", "jun", "jul", "aug",
    "sep", "sept", "okt", "nov", "dez">>

\* GERMAN_MONTHS[key]; "" stands for undefined.
GERMAN_MONTHS(key) ==
  CASE key \in {"januar", "jan"} -> "01"
    [] key \in {"februar", "feb"} -> "02"
    [] key \in {"märz", "mär"} -> "03"
    [] key \in {"april", "apr"} -> "04"
    [] key = "mai" -> "05"
    [] key \in {"juni", "jun"} -> "06"
    [] key \in {"juli", "jul"} -> "07"
    [] key \in {"august", "aug"} -> "08"
    [] key \in {"september", "sep", "sept"} -> "09"
    [] key \in {"oktober", "okt"} -> "10"
    [] key \in {"november", "nov"} -> "11"
    [] key \in {"dezember", "dez"} -> "12"
    [] OTHER -> ""

normalizeYearFixedCutoff(shortYear) ==
  IF Len(shortYear) # 2 THEN shortYear
  ELSE LET year == parseInt(shortYear)
       IN  IF year.nan THEN "NaN"
           ELSE toString(IF year.v < 50 THEN 2000 + year.v ELSE 1900 + year.v)

normalizeYear(shortYear) ==
  IF Len(shortYear) # 2 THEN shortYear
  ELSE LET year == parseInt(shortYear)
           fullYear == IF 2000 + year.v > currentYear THEN 1900 + year.v
                       ELSE 2000 + year.v
       IN  IF year.nan THEN "NaN" ELSE toString(fullYear)

\* s.replace(/^[cls]+/, '').
stripLeading(s, cls) == SubSeq(s, RunLen(s, 1, cls) + 1, Len(s))

\* s.replace(/[cls]+$/, '').
RECURSIVE stripTrailing(_, _)
stripTrailing(s, cls) ==
  IF Len(s) > 0 /\ Char(s, Len(s)) \in cls THEN stripTrailing(SubSeq(s, 1, Len(s) - 1), cls)
  ELSE s

\* s.replace(/[cls]{minLen,}follow/g, rep), where follow is "" or one character
\* that is not in cls (so the greedy run that matches is the longest one).
RECURSIVE replaceRuns(_, _, _, _, _, _)
replaceRuns(s, i, cls, minLen, follow, rep) ==
  IF i > Len(s) THEN ""
  ELSE LET r == RunLen(s, i, cls)
           hit == r >= minLen /\ (follow = "" \/ Char(s, i + r) = follow)
       IN  IF hit THEN rep \o replaceRuns(s, i + r + Len(follow), cls, minLen, follow, rep)
           ELSE Char(s, i) \o replaceRuns(s, i + 1, cls, minLen, follow, rep)

\* cleanupFilename without its last replace (a variant).
cleanupFilenameNoExtensionRule(filename) ==
  LET s1 == stripLeading(filename, {".", "-", "_"} \cup Whitespace)
      s2 == stripTrailing(s1, {".", "-", "_"} \cup Whitespace)
      s3 == replaceRuns(s2, 1, Whitespace, 1, ",", ",")
      s4 == replaceRuns(s3, 1, Whitespace, 1, "", " ")
      s5 == replaceRuns(s4, 1, {"_"}, 2, "", "_")
  IN  replaceRuns(s5, 1, {"-"}, 2, "", "-")

cleanupFilename(filename) ==
  LET s1 == stripLeading(filename, {".", "-", "_"} \cup Whitespace)
      s2 == stripTrailing(s1, {".", "-", "_"} \cup Whitespace)
      s3 == replaceRuns(s2, 1, Whitespace, 1, ",", ",")
      s4 == replaceRuns(s3, 1, Whitespace, 1, "", " ")
      s5 == replaceRuns(s4, 1, {"_"}, 2, "", "_")
      s6 == replaceRuns(s5, 1, {"-"}, 2, "", "-")
  IN  replaceRuns(s6, 1, {"-", "_"} \cup Whitespace, 1, ".", ".")

-----------------------------------------------------------------------------
(* The Date object (ECMAScript: day numbers since 1970-01-01) *)

DaysInYear(y) ==
  IF y % 4 # 0 THEN 365 ELSE IF y % 100 # 0 THEN 366 ELSE IF y % 400 # 0 THEN 365 ELSE 366

DayFromYear(y) ==
  365 * (y - 1970) + ((y - 1969) \div 4) - ((y - 1901) \div 100) + ((y - 1601) \div 400)

\* Day within the year on which month m (0..11) begins.
MonthStart(m, leap) ==
  CASE m = 0 -> 0 [] m = 1 -> 31 [] m = 2 -> 59 + leap [] m = 3 -> 90 + leap
    [] m = 4 -> 120 + leap [] m = 5 -> 151 + leap [] m = 6 -> 181 + leap
    [] m = 7 -> 212 + leap [] m = 8 -> 243 + leap [] m = 9 -> 273 + leap
    [] m = 10 -> 304 + leap [] m = 11 -> 334 + leap [] m = 12 -> 365 + leap

\* MakeDay(year, month, date): the day number of the date, the month carried
\* into the year and the day of the month carried into the following months.
MakeDay(year, month, date) ==
  LET ym == year + (month \div 12)
      mn == month % 12
  IN  DayFromYear(ym) + MonthStart(mn, DaysInYear(ym) - 365) + date - 1

YearFromDay(t) ==
  LET guess == 1970 + (t \div 365)
  IN  Max({y \in (guess - 2)..(guess + 2) : DayFromYear(y) <= t})

MonthFromDay(t) ==
  LET y == YearFromDay(t)
      d == t - DayFromYear(y)
  IN  Max({m \in 0..11 : MonthStart(m, DaysInYear(y) - 365) <= d})

DateFromDay(t) ==
  LET y == YearFromDay(t)
      d == t - DayFromYear(y)
  IN  d - MonthStart(MonthFromDay(t), DaysInYear(y) - 365) + 1

\* new Date(y, m, d) read back with getFullYear, getMonth and getDate (local
\* midnight of a calendar day, read in the same time zone).
newDate(y, m, d) ==
  LET t == MakeDay(IF y >= 0 /\ y <= 99 THEN 1900 + y ELSE y, m, d)
  IN  [getFullYear |-> YearFromDay(t), getMonth |-> MonthFromDay(t), getDate |-> DateFromDay(t)]

isValidDateRangesOnly(year, month, day) ==
  LET y == parseInt(year)
      m == parseInt(month)
      d == parseInt(day)
  IN  IF y.nan \/ m.nan \/ d.nan THEN FALSE
      ELSE ~(y.v < 1900 \/ y.v > currentYear \/ m.v - 1 < 0 \/ m.v - 1 > 11
             \/ d.v < 1 \/ d.v > 31)

isValidDate(year, month, day) ==
  LET y == parseInt(year)
      m == parseInt(month)
      d == parseInt(day)
  IN  IF y.nan \/ m.nan \/ d.nan THEN FALSE
      ELSE IF y.v < 1900 \/ y.v > currentYear \/ m.v - 1 < 0 \/ m.v - 1 > 11
              \/ d.v < 1 \/ d.v > 31 THEN FALSE
      ELSE LET date == newDate(y.v, m.v - 1, d.v)
           IN  date.getFullYear = y.v /\ date.getMonth = m.v - 1 /\ date.getDate = d.v

-----------------------------------------------------------------------------
(* Regular expressions *)

\* A match: its position i (1-based), its length n and its groups g; a group
\* that did not take part is "". The failed match has i = 0.
NoMatch == [i |-> 0, n |-> 0, g |-> <<>>]

\* String.prototype.match without the g flag: the match at the leftmost
\* position that has one.
match(s, At(_, _)) ==
  LET leftmost(P) == IF P = {} THEN NoMatch ELSE At(s, Min(P))
  IN  leftmost({i \in 1..Len(s) : At(s, i).i # 0})

\* The same for an expression that begins with \d: it matches at digits only.
matchAtDigit(s, At(_, _)) ==
  LET leftmost(P) == IF P = {} THEN NoMatch ELSE At(s, Min(P))
  IN  leftmost({i \in 1..Len(s) : Char(s, i) \in Digit /\ At(s, i).i # 0})

\* The text of a match (match[0]).
fullMatchOf(s, m) == SubSeq(s, m.i, m.i + m.n - 1)

\* \d{2,4}, greedy, with nothing after it: the length it takes at j, 0 if none.
yearLenAt(s, j) == FirstSuch(<<4, 3, 2>>, LAMBDA k : Digits(s, j, k))

\* One alternative of MONTH_NAMES_PATTERN at position j, under the i flag.
MonthAt(s, j, name) ==
  /\ j + Len(name) - 1 <= Len(s)
  /\ lowerChar(Char(s, j)) = Char(name, 1)
  /\ toLowerCase(SubSeq(s, j, j + Len(name) - 1)) = name

MonthIndices == [a \in 1..Len(MONTH_NAMES_PATTERN) |-> a]

\* (MONTH_NAMES_PATTERN) at j followed by what Cont accepts at the position
\* after the name: the index of the first alternative that leads to a match.
monthAlternative(s, j, Cont(_)) ==
  FirstSuch(MonthIndices,
            LAMBDA a : MonthAt(s, j, MONTH_NAMES_PATTERN[a])
                       /\ Cont(j + Len(MONTH_NAMES_PATTERN[a])))

\* The match at i of a day of dl digits, sep characters, a month of ml
\* characters, sep2 characters and a year of yl characters: the three groups.
threeGroups(s, i, dl, sep, ml, sep2, yl) ==
  [i |-> i, n |-> dl + sep + ml + sep2 + yl,
   g |-> <<SubSeq(s, i, i + dl - 1),
           SubSeq(s, i + dl + sep, i + dl + sep + ml - 1),
           SubSeq(s, i + dl + sep + ml + sep2, i + dl + sep + ml + sep2 + yl - 1)>>]

\* /(\d{4})-(\d{2})-(\d{2})/ with separator "-", "_" or "." (lines 271, 575, 603).
ymdAt(s, i, sep) ==
  IF Digits(s, i, 4) /\ Char(s, i + 4) = sep /\ Digits(s, i + 5, 2)
     /\ Char(s, i + 7) = sep /\ Digits(s, i + 8, 2)
  THEN threeGroups(s, i, 4, 1, 2, 1, 2)
  ELSE NoMatch

\* new RegExp(`${fullMatch}-(\\d{1,2})`): fullMatch holds digits and hyphens only.
rangeAt(s, i, fullMatch) ==
  LET matched(e, k) ==
        IF e - 1 <= Len(s) /\ SubSeq(s, i, e - 1) = fullMatch /\ Char(s, e) = "-" /\ k # 0
        THEN [i |-> i, n |-> Len(fullMatch) + 1 + k, g |-> <<SubSeq(s, e + 1, e + k)>>]
        ELSE NoMatch
  IN  matched(i + Len(fullMatch),
              FirstSuch(<<2, 1>>, LAMBDA d : Digits(s, i + Len(fullMatch) + 1, d)))

\* /(\d{1,2})\.(\d{1,2})\.(\d{2,4})/
germanAt(s, i) ==
  LET monthLen(j) ==
        FirstSuch(<<2, 1>>, LAMBDA k : Digits(s, j, k) /\ Char(s, j + k) = "."
                                       /\ yearLenAt(s, j + k + 1) # 0)
      withMonth(dl, ml) == threeGroups(s, i, dl, 1, ml, 1, yearLenAt(s, i + dl + ml + 2))
      withDay(dl) == IF dl = 0 THEN NoMatch ELSE withMonth(dl, monthLen(i + dl + 1))
  IN  withDay(FirstSuch(<<2, 1>>, LAMBDA k : Digits(s, i, k) /\ Char(s, i + k) = "."
                                             /\ monthLen(i + k + 1) # 0))

\* /(\d{4})-(\d{1,2})-(\d{1,2})/
singleDigitAt(s, i) ==
  LET dayLen(j) == FirstSuch(<<2, 1>>, LAMBDA k : Digits(s, j, k))
      withMonth(ml) ==
        IF Digits(s, i, 4) /\ Char(s, i + 4) = "-" /\ ml # 0
        THEN threeGroups(s, i, 4, 1, ml, 1, dayLen(i + 5 + ml + 1))
        ELSE NoMatch
  IN  withMonth(FirstSuch(<<2, 1>>, LAMBDA k : Digits(s, i + 5, k) /\ Char(s, i + 5 + k) = "-"
                                               /\ dayLen(i + 5 + k + 1) # 0))

\* new RegExp(`(\\d{1,2})-(${MONTH_NAMES_PATTERN})(?:-(\\d{2}))?(?:-(\\d{4}))?`, 'i'):
\* nothing after the month name has to match, so the first alternative that
\* matches at all is the one taken, and each optional group is taken when it
\* can be, given what was taken before it.
complexAt(s, i) ==
  LET month(j) == monthAlternative(s, j, LAMBDA e : TRUE)
      withFull(dl, ml, short, e2, full) ==
        [i |-> i, n |-> (IF full THEN e2 + 5 ELSE e2) - i,
         g |-> <<SubSeq(s, i, i + dl - 1), SubSeq(s, i + dl + 1, i + dl + ml),
                 IF short THEN SubSeq(s, e2 - 2, e2 - 1) ELSE "",
                 IF full THEN SubSeq(s, e2 + 1, e2 + 4) ELSE "">>]
      withShort(dl, ml, short, e2) ==
        withFull(dl, ml, short, e2, Char(s, e2) = "-" /\ Digits(s, e2 + 1, 4))
      withMonth(dl, ml, e1, short) == withShort(dl, ml, short, IF short THEN e1 + 3 ELSE e1)
      withDay(dl, a) ==
        IF dl = 0 THEN NoMatch
        ELSE withMonth(dl, Len(MONTH_NAMES_PATTERN[a]),
                       i + dl + 1 + Len(MONTH_NAMES_PATTERN[a]),
                       Char(s, i + dl + 1 + Len(MONTH_NAMES_PATTERN[a])) = "-"
                       /\ Digits(s, i + dl + 2 + Len(MONTH_NAMES_PATTERN[a]), 2))
      found(dl) == withDay(dl, month(i + dl + 1))
  IN  found(FirstSuch(<<2, 1>>, LAMBDA k : Digits(s, i, k) /\ Char(s, i + k) = "-"
                                           /\ month(i + k + 1) # 0))

\* new RegExp(`(\\d{1,2})-(${MONTH_NAMES_PATTERN})(?:-(\\d{2,4}))`, 'i')
genericAt(s, i) ==
  LET month(j) == monthAlternative(s, j, LAMBDA e : Char(s, e) = "-"
                                                    /\ yearLenAt(s, e + 1) # 0)
      withMonth(dl, ml) == threeGroups(s, i, dl, 1, ml, 1, yearLenAt(s, i + dl + ml + 2))
      withDay(dl) ==
        IF dl = 0 THEN NoMatch
        ELSE withMonth(dl, Len(MONTH_NAMES_PATTERN[month(i + dl + 1)]))
  IN  withDay(FirstSuch(<<2, 1>>, LAMBDA k : Digits(s, i, k) /\ Char(s, i + k) = "-"
                                             /\ month(i + k + 1) # 0))

\* The run lengths a greedy star tries at j over class cls, longest first,
\* each plus one (so that no entry is 0).
starTries(s, j, cls) == [k \in 1..(RunLen(s, j, cls) + 1) |-> RunLen(s, j, cls) + 2 - k]

\* new RegExp(`(\\d{1,2})\s*(${MONTH_NAMES_PATTERN})\s*(\\d{2,4})`, 'i'): in the
\* template literal \s is the letter s, so the expression is
\* (\d{1,2})s*(...)s*(\d{2,4}) and s* takes letters s or S.
germanMonthAt(s, i) ==
  LET S == {"s", "S"}
      month(j) == monthAlternative(s, j, LAMBDA e : yearLenAt(s, e + RunLen(s, e, S)) # 0)
      star(j) == FirstSuch(starTries(s, j, S), LAMBDA r : month(j + r - 1) # 0)
      withYear(dl, sep, ml, sep2) ==
        threeGroups(s, i, dl, sep, ml, sep2, yearLenAt(s, i + dl + sep + ml + sep2))
      withMonth(dl, sep, ml) == withYear(dl, sep, ml, RunLen(s, i + dl + sep + ml, S))
      withStar(dl, sep) ==
        withMonth(dl, sep, Len(MONTH_NAMES_PATTERN[month(i + dl + sep)]))
      withDay(dl) == IF dl = 0 THEN NoMatch ELSE withStar(dl, star(i + dl) - 1)
  IN  withDay(FirstSuch(<<2, 1>>, LAMBDA k : Digits(s, i, k) /\ star(i + k) # 0))

\* new RegExp(`(\\d{1,2})[\\s.-]+(${MONTH_NAMES_PATTERN})[\\s.-]+(\\d{2,4})`, 'i')
dayMonthNameAt(s, i) ==
  LET Sep == Whitespace \cup {".", "-"}
      month(j) == monthAlternative(s, j, LAMBDA e : RunLen(s, e, Sep) >= 1
                                                    /\ yearLenAt(s, e + RunLen(s, e, Sep)) # 0)
      withYear(dl, sep, ml, sep2) ==
        threeGroups(s, i, dl, sep, ml, sep2, yearLenAt(s, i + dl + sep + ml + sep2))
      withMonth(dl, sep, ml) == withYear(dl, sep, ml, RunLen(s, i + dl + sep + ml, Sep))
      withSep(dl, sep) ==
        withMonth(dl, sep, Len(MONTH_NAMES_PATTERN[month(i + dl + sep)]))
      withDay(dl) == IF dl = 0 THEN NoMatch ELSE withSep(dl, RunLen(s, i + dl, Sep))
  IN  withDay(FirstSuch(<<2, 1>>, LAMBDA k : Digits(s, i, k) /\ RunLen(s, i + k, Sep) >= 1
                                             /\ month(i + k + RunLen(s, i + k, Sep)) # 0))

\* new RegExp(`(${MONTH_NAMES_PATTERN})[\s.-]+(\\d{4})`, 'i'): in the template
\* literal \s is the letter s, so the class is [s.-] (s, S, '.' and '-') and
\* holds no white space.
monthNameOnlyAt(s, i) ==
  LET Cls == {"s", "S", ".", "-"}
      withSep(ml, sep) ==
        [i |-> i, n |-> ml + sep + 4,
         g |-> <<SubSeq(s, i, i + ml - 1), SubSeq(s, i + ml + sep, i + ml + sep + 3)>>]
      withMonth(ml) == withSep(ml, RunLen(s, i + ml, Cls))
      found(a) == IF a = 0 THEN NoMatch ELSE withMonth(Len(MONTH_NAMES_PATTERN[a]))
  IN  found(monthAlternative(s, i, LAMBDA e : RunLen(s, e, Cls) >= 1
                                              /\ Digits(s, e + RunLen(s, e, Cls), 4)))

\* /(\d{1,2})\.(\d{1,2})\.(?:\s+(\d{4}))?/
partialAt(s, i) ==
  LET monthLen(j) == FirstSuch(<<2, 1>>, LAMBDA k : Digits(s, j, k) /\ Char(s, j + k) = ".")
      withYear(dl, ml, e, w, year) ==
        [i |-> i, n |-> (IF year THEN e + w + 4 ELSE e) - i,
         g |-> <<SubSeq(s, i, i + dl - 1), SubSeq(s, i + dl + 1, i + dl + ml),
                 IF year THEN SubSeq(s, e + w, e + w + 3) ELSE "">>]
      withSpace(dl, ml, e, w) == withYear(dl, ml, e, w, w >= 1 /\ Digits(s, e + w, 4))
      withMonth(dl, ml) ==
        withSpace(dl, ml, i + dl + ml + 2, RunLen(s, i + dl + ml + 2, Whitespace))
      withDay(dl) == IF dl = 0 THEN NoMatch ELSE withMonth(dl, monthLen(i + dl + 1))
  IN  withDay(FirstSuch(<<2, 1>>, LAMBDA k : Digits(s, i, k) /\ Char(s, i + k) = "."
                                             /\ monthLen(i + k + 1) # 0))

\* /\b(19\d{2}|20\d{2})\b/
yearWordAt(s, i) ==
  IF Digits(s, i, 4) /\ SubSeq(s, i, i + 1) \in {"19", "20"}
     /\ Char(s, i - 1) \notin WordChar /\ Char(s, i + 4) \notin WordChar
  THEN [i |-> i, n |-> 4, g |-> <<SubSeq(s, i, i + 3)>>]
  ELSE NoMatch

\* new RegExp(`(\\d{1,2})\\. (${MONTH_NAMES_PATTERN}) (\\d{4})`, 'i')
specialAt(s, i) ==
  LET month(j) == monthAlternative(s, j, LAMBDA e : Char(s, e) = " " /\ Digits(s, e + 1, 4))
      withDay(dl) ==
        IF dl = 0 THEN NoMatch
        ELSE threeGroups(s, i, dl, 2, Len(MONTH_NAMES_PATTERN[month(i + dl + 2)]), 1, 4)
  IN  withDay(FirstSuch(<<2, 1>>, LAMBDA k : Digits(s, i, k) /\ Char(s, i + k) = "."
                                             /\ Char(s, i + k + 1) = " "
                                             /\ month(i + k + 2) # 0))

-----------------------------------------------------------------------------
(* The recognizers *)

\* The value null.
NULL == [null |-> TRUE]

\* String.prototype.includes.
includes(s, t) == indexOf(s, t) # -1

\* beforePattern + afterPattern: the name without the first occurrence of pattern.
withoutPattern(filename, pattern) ==
  LET cut(at) == substring(filename, 0, at) \o substringFrom(filename, at + Len(pattern))
  IN  cut(indexOf(filename, pattern))

\* afterPattern.replace(yearMatch[0], ''): the first occurrence removed, if any.
replaceFirst(s, t) == IF includes(s, t) THEN withoutPattern(s, t) ELSE s

\* The object a recognizer returns.
dateFound(year, month, day, restOfFilename, matchedPattern) ==
  [year |-> year, month |-> month, day |-> day,
   restOfFilename |-> restOfFilename, matchedPattern |-> matchedPattern]

extractStandardISODateKeepRangeDay(filename) ==
  LET ranged(m, fullMatch, rangeMatch) ==
        IF includes(filename, fullMatch \o "-") /\ rangeMatch.i # 0
        THEN dateFound(m.g[1], m.g[2], m.g[3],
                       cleanupFilename(withoutPattern(filename, fullMatch \o "-")),
                       "Standard ISO Date with Range: yyyy-mm-dd-dd")
        ELSE dateFound(m.g[1], m.g[2], m.g[3],
                       cleanupFilename(withoutPattern(filename, fullMatch)),
                       "Standard ISO Date: yyyy-mm-dd")
      found(m, fullMatch) ==
        ranged(m, fullMatch, matchAtDigit(filename, LAMBDA s, i : rangeAt(s, i, fullMatch)))
      result(m) == IF m.i = 0 THEN NULL ELSE found(m, fullMatchOf(filename, m))
  IN  result(matchAtDigit(filename, LAMBDA s, i : ymdAt(s, i, "-")))

extractStandardISODate(filename) ==
  LET ranged(m, fullMatch, rangeMatch) ==
        IF includes(filename, fullMatch \o "-") /\ rangeMatch.i # 0
        THEN dateFound(m.g[1], m.g[2], m.g[3],
                       cleanupFilename(
                         withoutPattern(filename, fullMatch \o "-" \o rangeMatch.g[1])),
                       "Standard ISO Date with Range: yyyy-mm-dd-dd")
        ELSE dateFound(m.g[1], m.g[2], m.g[3],
                       cleanupFilename(withoutPattern(filename, fullMatch)),
                       "Standard ISO Date: yyyy-mm-dd")
      found(m, fullMatch) ==
        ranged(m, fullMatch, matchAtDigit(filename, LAMBDA s, i : rangeAt(s, i, fullMatch)))
      result(m) == IF m.i = 0 THEN NULL ELSE found(m, fullMatchOf(filename, m))
  IN  result(matchAtDigit(filename, LAMBDA s, i : ymdAt(s, i, "-")))

extractUnderscoreDate(filename) ==
  LET result(m) ==
        IF m.i = 0 THEN NULL
        ELSE dateFound(m.g[1], m.g[2], m.g[3],
                       cleanupFilename(withoutPattern(filename, fullMatchOf(filename, m))),
                       "Underscore Separated Date: yyyy_mm_dd")
  IN  result(matchAtDigit(filename, LAMBDA s, i : ymdAt(s, i, "_")))

extractDotSeparatedDate(filename) ==
  LET result(m) ==
        IF m.i = 0 THEN NULL
        ELSE dateFound(m.g[1], m.g[2], m.g[3],
                       cleanupFilename(withoutPattern(filename, fullMatchOf(filename, m))),
                       "Dot Separated Date: yyyy.mm.dd")
  IN  result(matchAtDigit(filename, LAMBDA s, i : ymdAt(s, i, ".")))

extractGermanStyleDateNoPadding(filename) ==
  LET result(m) ==
        IF m.i = 0 THEN NULL
        ELSE dateFound(normalizeYear(m.g[3]), m.g[2], m.g[1],
                       cleanupFilename(withoutPattern(filename, fullMatchOf(filename, m))),
                       "German Style Date: [d]d.[m]m.[yy]yy")
  IN  result(matchAtDigit(filename, germanAt))

extractGermanStyleDate(filename) ==
  LET result(m) ==
        IF m.i = 0 THEN NULL
        ELSE dateFound(normalizeYear(m.g[3]), padStart2(m.g[2]), padStart2(m.g[1]),
                       cleanupFilename(withoutPattern(filename, fullMatchOf(filename, m))),
                       "German Style Date: [d]d.[m]m.[yy]yy")
  IN  result(matchAtDigit(filename, germanAt))

extractSingleDigitDate(filename) ==
  LET result(m) ==
        IF m.i = 0 THEN NULL
        ELSE dateFound(m.g[1], padStart2(m.g[2]), padStart2(m.g[3]),
                       cleanupFilename(withoutPattern(filename, fullMatchOf(filename, m))),
                       "Single Digit Date: yyyy-[m]m-d[d]")
  IN  result(matchAtDigit(filename, singleDigitAt))

extractComplexHyphenatedDate(filename) ==
  LET found(m, month, shortYear, fullYear) ==
        IF month # ""
        THEN dateFound(IF fullYear # "" THEN fullYear
                       ELSE IF shortYear # "" THEN normalizeYear(shortYear)
                       ELSE toString(currentYear),
                       month, padStart2(m.g[1]),
                       cleanupFilename(withoutPattern(filename, fullMatchOf(filename, m))),
                       "Hyphenated Date with month name: [d]d-month-yy-yyyy")
        ELSE NULL
      result(m) ==
        IF m.i = 0 THEN NULL
        ELSE found(m, GERMAN_MONTHS(toLowerCase(m.g[2])), m.g[3], m.g[4])
  IN  result(matchAtDigit(filename, complexAt))

\* `${year}-${month}-${day} ${restOfFilename}` (processDirectory, line 195).
newFilenameOf(result) ==
  result.year \o "-" \o result.month \o "-" \o result.day \o " " \o result.restOfFilename

\* The loop over matchAll returns at the first match whose month name is a key
\* of GERMAN_MONTHS; every match's month name is one (it matched an alternative
\* of MONTH_NAMES_PATTERN), so that is the leftmost match.
extractGenericHyphenatedDate(filename) ==
  LET german(germanMatch, month) ==
        IF germanMatch.i # 0 /\ month # ""
        THEN dateFound(normalizeYear(germanMatch.g[3]), month, padStart2(germanMatch.g[1]),
                       cleanupFilename(
                         withoutPattern(filename, fullMatchOf(filename, germanMatch))),
                       "German Month Year Pattern: [d]d month [yy]yy")
        ELSE NULL
      monthOf(m) == IF m.i = 0 THEN "" ELSE GERMAN_MONTHS(toLowerCase(m.g[2]))
      second(germanMatch) == german(germanMatch, monthOf(germanMatch))
      generic(m, month) ==
        IF m.i # 0 /\ month # ""
        THEN dateFound(IF Len(m.g[3]) = 2 THEN normalizeYear(m.g[3]) ELSE m.g[3],
                       month, padStart2(m.g[1]),
                       cleanupFilename(withoutPattern(filename, fullMatchOf(filename, m))),
                       "Hyphenated Date with month name: [d]d-month-[yy]yy")
        ELSE second(matchAtDigit(filename, germanMonthAt))
      first(m) == generic(m, IF m.i = 0 THEN "" ELSE GERMAN_MONTHS(toLowerCase(m.g[2])))
  IN  first(matchAtDigit(filename, genericAt))

extractDateWithMonthName(filename) ==
  LET monthOnly(m2, month) ==
        IF m2.i # 0 /\ month # ""
        THEN dateFound(m2.g[2], month, "01",
                       cleanupFilename(withoutPattern(filename, fullMatchOf(filename, m2))),
                       "Date with Month Name Only: month yyyy")
        ELSE NULL
      second(m2) ==
        monthOnly(m2, IF m2.i = 0 THEN "" ELSE GERMAN_MONTHS(toLowerCase(m2.g[1])))
      withDay(m, month) ==
        IF m.i # 0 /\ month # ""
        THEN dateFound(normalizeYear(m.g[3]), month, padStart2(m.g[1]),
                       cleanupFilename(withoutPattern(filename, fullMatchOf(filename, m))),
                       "Date with Month Name and Day: [d]d month [yy]yy")
        ELSE second(match(filename, monthNameOnlyAt))
      first(m) == withDay(m, IF m.i = 0 THEN "" ELSE GERMAN_MONTHS(toLowerCase(m.g[2])))
  IN  first(matchAtDigit(filename, dayMonthNameAt))

extractPartialDate(filename) ==
  LET partial(m, beforePattern, afterPattern, yearMatch) ==
        IF m.g[3] = "" /\ yearMatch.i # 0
        THEN dateFound(yearMatch.g[1], padStart2(m.g[2]), padStart2(m.g[1]),
                       cleanupFilename(
                         beforePattern
                           \o replaceFirst(afterPattern, fullMatchOf(filename, yearMatch))),
                       "Partial Date with Year Elsewhere")
        ELSE dateFound(IF m.g[3] = "" THEN toString(currentYear) ELSE m.g[3],
                       padStart2(m.g[2]), padStart2(m.g[1]),
                       cleanupFilename(beforePattern \o afterPattern),
                       "Partial Date")
      cut(m, fullMatch, at) ==
        partial(m, substring(filename, 0, at), substringFrom(filename, at + Len(fullMatch)),
                matchAtDigit(filename, yearWordAt))
      found(m, fullMatch) == cut(m, fullMatch, indexOf(filename, fullMatch))
      special(specialMatch, month) ==
        IF specialMatch.i # 0 /\ month # ""
        THEN dateFound(specialMatch.g[3], month, padStart2(specialMatch.g[1]),
                       cleanupFilename(
                         withoutPattern(filename, fullMatchOf(filename, specialMatch))),
                       "Special Case: Day. Month Year")
        ELSE NULL
      second(specialMatch) ==
        special(specialMatch,
                IF specialMatch.i = 0 THEN ""
                ELSE GERMAN_MONTHS(toLowerCase(specialMatch.g[2])))
      first(m) ==
        IF m.i # 0 THEN found(m, fullMatchOf(filename, m))
        ELSE second(matchAtDigit(filename, specialAt))
  IN  first(matchAtDigit(filename, partialAt))

\* The names of the recognizers, in the order of the patterns array.
patterns ==
  <<"extractStandardISODate", "extractUnderscoreDate", "extractDotSeparatedDate",
    "extractGermanStyleDate", "extractSingleDigitDate", "extractComplexHyphenatedDate",
    "extractGenericHyphenatedDate", "extractDateWithMonthName", "extractPartialDate">>

\* patternFn(filename) for the recognizer of that name.
patternFn(name, filename) ==
  CASE name = "extractStandardISODate" -> extractStandardISODate(filename)
    [] name = "extractUnderscoreDate" -> extractUnderscoreDate(filename)
    [] name = "extractDotSeparatedDate" -> extractDotSeparatedDate(filename)
    [] name = "extractGermanStyleDate" -> extractGermanStyleDate(filename)
    [] name = "extractSingleDigitDate" -> extractSingleDigitDate(filename)
    [] name = "extractComplexHyphenatedDate" -> extractComplexHyphenatedDate(filename)
    [] name = "extractGenericHyphenatedDate" -> extractGenericHyphenatedDate(filename)
    [] name = "extractDateWithMonthName" -> extractDateWithMonthName(filename)
    [] name = "extractPartialDate" -> extractPartialDate(filename)

\* for (const patternFn of patterns) from the k-th recognizer of the list on.
RECURSIVE firstResult(_, _, _)
firstResult(list, k, filename) ==
  LET orNext(result) ==
        IF result # NULL THEN result ELSE firstResult(list, k + 1, filename)
  IN  IF k > Len(list) THEN NULL ELSE orNext(patternFn(list[k], filename))

extractDateFromFilenameGermanFirst(filename) ==
  firstResult(<<"extractGermanStyleDate", "extractStandardISODate", "extractUnderscoreDate",
                "extractDotSeparatedDate", "extractSingleDigitDate",
                "extractComplexHyphenatedDate", "extractGenericHyphenatedDate",
                "extractDateWithMonthName", "extractPartialDate">>, 1, filename)

extractDateFromFilename(filename) == firstResult(patterns, 1, filename)

-----------------------------------------------------------------------------
(* Inputs of the functions *)

\* The pieces the file names of the model are put together from.
Parts ==
  <<"2022-06-18", "-19", " Notes.docx", "Protokoll_", "15.03.2025", "1.2.34 ",
    "5.6.2020", "April 2021", "14-Jan-2023", "10-Sept-23", "5-Mainz", "2023_07_10",
    "2024.09.29", "2025-2-8", "10. September 2023", "9.5.", " 2020", "Sep", "7",
    " - ", "MÄRZ.1999">>

\* The names of the README and of the documentation of the recognizers.
Examples ==
  {"2025-2-8 Notizen.doc", "Protokoll - 15.03.2025.docx", "2025-01-11 Protokoll.docx",
   "Protokoll_2023-07-10.docx", "Notizen 10. September 2023.docx", "Notes Sep 10.txt",
   "Notes Sep.txt", "2022-06-18-19 Notes.docx", "April 2021 Bericht.docx",
   "25 Oktober 2020.txt", "14-Jan-2023 Notes.txt", "14-Jan-23 Notes.txt",
   "24-September-22-2022.txt", "10-Sept-2023 x.txt", "5-Mainz.txt", "10-Junior-22.txt",
   "Protokoll_2022_06_12.docx", "Protokoll_2024.09.29.docx", "26.7. 2020.txt", "9.5. x.txt",
   "KG-Treffen 17. Mai 2020, Kleingruppe 1 Süd-West.doc", "15.03.2025.docx",
   "10Sep2023.txt", "Juni-2021.txt", "31.02.2024 x.txt", "7-Mai-30 x.txt"}

\* The names made of n parts.
RECURSIVE NamesOf(_)
NamesOf(n) ==
  IF n = 0 THEN {""}
  ELSE {a \o Parts[k] : a \in NamesOf(n - 1), k \in 1..Len(Parts)}

Names == UNION {NamesOf(n) : n \in 0..MaxParts} \cup Examples

\* Two decimal digits for n in 0..99.
TwoDigits(n) == DigitChars[(n \div 10) + 1] \o DigitChars[(n % 10) + 1]

\* The arguments of normalizeYear: every two-digit string, and strings of
\* other lengths.
YearStrings ==
  {TwoDigits(n) : n \in 0..99} \cup {"", "7", "007", "202", "1999", "2023", "20234"}

\* The arguments of isValidDate: numeric triples around the calendar's edges,
\* every year from 1899 to the year after the latest current year.
DateTriples == [y : 1899..(MaxCurrentYear + 1), m : 0..13, d : 0..32]

-----------------------------------------------------------------------------
(* main and processDirectory *)

vars ==
  <<currentYear, run, fn, arg, out, argv, disk, pc, dryRun, debugMode, directories,
    dirIdx, files, fileIdx, renamedCount, skippedCount, errorCount, totalStats,
    awaited, log>>

walkVars ==
  <<run, argv, disk, pc, dryRun, debugMode, directories, dirIdx, files, fileIdx,
    renamedCount, skippedCount, errorCount, totalStats, awaited, log>>

\* Array.prototype.includes and indexOf (0 when absent), and splice(index, 1).
arrayIndexOf(array, x) ==
  IF \E k \in 1..Len(array) : array[k] = x
  THEN Min({k \in 1..Len(array) : array[k] = x})
  ELSE 0

splice1(array, k) == SubSeq(array, 1, k - 1) \o SubSeq(array, k + 1, Len(array))

withoutFlag(array, flag) ==
  IF arrayIndexOf(array, flag) # 0 THEN splice1(array, arrayIndexOf(array, flag)) ELSE array

endsWith(s, suffix) ==
  Len(s) >= Len(suffix) /\ SubSeq(s, Len(s) - Len(suffix) + 1, Len(s)) = suffix

startsWith(s, prefix) == Len(s) >= Len(prefix) /\ SubSeq(s, 1, Len(prefix)) = prefix

\* The script itself and hidden files are passed over.
skippedByName(oldFilename) ==
  IF endsWith(oldFilename, ".js") THEN TRUE
  ELSE IF endsWith(oldFilename, ".mjs") THEN TRUE
  ELSE IF endsWith(oldFilename, ".ts") THEN TRUE
  ELSE startsWith(oldFilename, ".")

\* No name is taken as already formatted (a variant).
alreadyFormattedNever(oldFilename) == FALSE

\* /^\d{4}-\d{2}-\d{2}/.test(oldFilename)
alreadyFormatted(oldFilename) == ymdAt(oldFilename, 1, "-").i # 0

\* What processDirectory does with a regular file, between the stat and the
\* rename: the counter it increments ("error", "skipped") or the rename it
\* goes on to, with the result of the extraction and the target name.
Decision(outcome, reason, result, newFilename) ==
  [outcome |-> outcome, reason |-> reason, result |-> result, newFilename |-> newFilename]

\* processDirectory with a null result counted as a skipped file (a variant).
processFileNullSkipped(oldFilename) ==
  LET decide(result) ==
        IF result = NULL THEN Decision("skipped", "no date", result, "")
        ELSE IF ~isValidDate(result.year, result.month, result.day)
        THEN Decision("error", "invalid date", result, "")
        ELSE IF alreadyFormatted(oldFilename)
        THEN Decision("skipped", "formatted", result, oldFilename)
        ELSE IF oldFilename = newFilenameOf(result)
        THEN Decision("skipped", "same name", result, oldFilename)
        ELSE Decision("rename", "", result, newFilenameOf(result))
  IN  decide(extractDateFromFilename(oldFilename))

\* processDirectory without the validation of the date (a variant).
processFileNoValidation(oldFilename) ==
  LET decide(result) ==
        IF result = NULL THEN Decision("error", "no date", result, "")
        ELSE IF alreadyFormatted(oldFilename)
        THEN Decision("skipped", "formatted", result, oldFilename)
        ELSE IF oldFilename = newFilenameOf(result)
        THEN Decision("skipped", "same name", result, oldFilename)
        ELSE Decision("rename", "", result, newFilenameOf(result))
  IN  decide(extractDateFromFilename(oldFilename))

processFile(oldFilename) ==
  LET decide(result) ==
        IF result = NULL THEN Decision("error", "no date", result, "")
        ELSE IF ~isValidDate(result.year, result.month, result.day)
        THEN Decision("error", "invalid date", result, "")
        ELSE IF alreadyFormatted(oldFilename)
        THEN Decision("skipped", "formatted", result, oldFilename)
        ELSE IF oldFilename = newFilenameOf(result)
        THEN Decision("skipped", "same name", result, oldFilename)
        ELSE Decision("rename", "", result, newFilenameOf(result))
  IN  decide(extractDateFromFilename(oldFilename))

\* The file system.  An entry of a directory is a regular file, a directory
\* or a symbolic link to nothing; content tells the files apart.
Entry(name, kind) == [name |-> name, kind |-> kind, content |-> name]

exists(path) == path \in DOMAIN disk

entriesOf(directory) == disk[directory].entries

entryNamed(directory, name) == CHOOSE e \in entriesOf(directory) : e.name = name

hasEntry(directory, name) == \E e \in entriesOf(directory) : e.name = name

\* fs.stat(path.join(directory, name)): "ENOENT" for a name that is gone and
\* for a link to nothing.
statOf(directory, name) ==
  IF ~hasEntry(directory, name) THEN "ENOENT"
  ELSE IF entryNamed(directory, name).kind = "dangling" THEN "ENOENT"
  ELSE entryNamed(directory, name).kind

\* fs.rename(oldPath, newPath) fails when the old name is gone and when the
\* new name is a directory; otherwise it replaces whatever has the new name.
renameError(directory, oldName, newName) ==
  IF ~hasEntry(directory, oldName) THEN "ENOENT"
  ELSE IF ~hasEntry(directory, newName) THEN ""
  ELSE IF entryNamed(directory, newName).kind = "dir" THEN "EISDIR"
  ELSE ""

renamed(directory, oldName, newName) ==
  [disk EXCEPT ![directory].entries =
     {e \in @ : e.name # oldName /\ e.name # newName}
       \cup {[entryNamed(directory, oldName) EXCEPT !.name = newName]}]

\* The orders fs.readdir may list a set of entries in.
Listings(entries) ==
  LET names == {e.name : e \in entries}
      n == Cardinality(names)
  IN  {l \in [1..n -> names] : \A a, b \in 1..n : l[a] = l[b] => a = b}

\* The directories the run finds.
CuratedEntries ==
  {Entry("Protokoll_2023-07-10.docx", "file"),
   Entry("Protokoll - 10.07.2023.docx", "file"),
   Entry("2025-01-11 Protokoll.docx", "file"),
   Entry("31.02.2024 x.txt", "file"),
   Entry("Notes Sep.txt", "file"),
   Entry("15.03.2025.docx", "file"),
   Entry(".hidden 1.1.2020", "file"),
   Entry("rename-files.mjs", "file"),
   Entry("a 2.1.2020", "file"),
   Entry("2020-01-02 a", "dir"),
   Entry("link 1.2.2020", "dangling")}

Disk(entries) ==
  [path \in {".", "docs", "README.md"} |->
     IF path = "." THEN [isDirectory |-> TRUE, entries |-> entries]
     ELSE IF path = "docs"
     THEN [isDirectory |-> TRUE, entries |-> {Entry("Sitzung 3.4.2021.txt", "file")}]
     ELSE [isDirectory |-> FALSE, entries |-> {}]]

CuratedDisks ==
  {Disk(entries) : entries \in {S \in SUBSET CuratedEntries : Cardinality(S) <= MaxFiles}}

NameDisks == {Disk({Entry(name, "file")}) : name \in Names \ {""}}

\* The command lines: every one of them on one directory, three of them on
\* every curated directory, one of them on every directory of a single name.
Argvs ==
  {<<>>, <<"--execute">>, <<".", "--execute">>, <<"--debug", "docs", ".">>,
   <<"missing", ".", "--execute">>, <<"README.md", ".", "--execute">>,
   <<".", ".", "--execute">>}

CuratedArgvs == {<<>>, <<".", "--execute">>, <<".", ".", "--execute">>}

NameArgvs == {<<"--execute", ".">>}

ExampleDisk ==
  Disk({Entry("Protokoll - 10.07.2023.docx", "file"), Entry("Notes Sep.txt", "file")})

NoStats == [totalRenamed |-> 0, totalSkipped |-> 0, totalErrors |-> 0]

\* The years the program is run in.
CurrentYears == 2025..MaxCurrentYear

\* The state before main runs: nothing read, nothing counted.
NotStarted ==
  /\ pc = "main" /\ dryRun = TRUE /\ debugMode = FALSE
  /\ directories = <<>> /\ dirIdx = 0 /\ files = <<>> /\ fileIdx = 0
  /\ renamedCount = 0 /\ skippedCount = 0 /\ errorCount = 0
  /\ totalStats = NoStats /\ awaited = NULL /\ log = <<>>

Init ==
  /\ currentYear = MaxCurrentYear /\ run = 1
  /\ fn = "main" /\ arg = "" /\ out = NULL
  /\ \/ argv \in Argvs /\ disk = ExampleDisk
     \/ argv \in CuratedArgvs /\ disk \in CuratedDisks
     \/ argv \in NameArgvs /\ disk \in NameDisks
  /\ NotStarted

directory == directories[dirIdx]

oldFilename == files[fileIdx]

Reported(outcome, decision) ==
  [run |-> run, currentYear |-> currentYear, dirIdx |-> dirIdx, fileIdx |-> fileIdx,
   directory |-> directory, oldFilename |-> oldFilename, outcome |-> outcome,
   reason |-> decision.reason, result |-> decision.result,
   newFilename |-> decision.newFilename, dryRun |-> dryRun]

countError ==
  /\ errorCount' = errorCount + 1
  /\ totalStats' = [totalStats EXCEPT !.totalErrors = @ + 1]
  /\ UNCHANGED <<renamedCount, skippedCount>>

\* skippedCount++ without totalStats.totalSkipped++ (a variant).
countSkippedInDirectoryOnly ==
  /\ skippedCount' = skippedCount + 1
  /\ UNCHANGED <<renamedCount, errorCount, totalStats>>

countSkipped ==
  /\ skippedCount' = skippedCount + 1
  /\ totalStats' = [totalStats EXCEPT !.totalSkipped = @ + 1]
  /\ UNCHANGED <<renamedCount, errorCount>>

countRenamed ==
  /\ renamedCount' = renamedCount + 1
  /\ totalStats' = [totalStats EXCEPT !.totalRenamed = @ + 1]
  /\ UNCHANGED <<skippedCount, errorCount>>

\* main with dryRun false whatever the arguments are (a variant).
MainAlwaysExecutes ==
  /\ pc = "main"
  /\ LET given == IF Len(argv) > 0 THEN argv ELSE <<".">>
     IN  /\ dryRun' = FALSE
         /\ debugMode' = (arrayIndexOf(withoutFlag(given, "--execute"), "--debug") # 0)
         /\ directories' = withoutFlag(withoutFlag(given, "--execute"), "--debug")
  /\ dirIdx' = 1
  /\ pc' = "directories"
  /\ UNCHANGED <<currentYear, run, fn, arg, out, argv, disk, files, fileIdx, renamedCount,
                 skippedCount, errorCount, totalStats, awaited, log>>

\* main up to its loop: the arguments, the two flags taken out of them.
Main ==
  /\ pc = "main"
  /\ LET given == IF Len(argv) > 0 THEN argv ELSE <<".">>
     IN  /\ dryRun' = (arrayIndexOf(given, "--execute") = 0)
         /\ debugMode' = (arrayIndexOf(withoutFlag(given, "--execute"), "--debug") # 0)
         /\ directories' = withoutFlag(withoutFlag(given, "--execute"), "--debug")
  /\ dirIdx' = 1
  /\ pc' = "directories"
  /\ UNCHANGED <<currentYear, run, fn, arg, out, argv, disk, files, fileIdx, renamedCount,
                 skippedCount, errorCount, totalStats, awaited, log>>

\* main calls processDirectory, which awaits fs.access.
ProcessDirectory ==
  /\ pc = "directories" /\ dirIdx <= Len(directories)
  /\ pc' = "access"
  /\ UNCHANGED <<currentYear, run, fn, arg, out, argv, disk, dryRun, debugMode, directories,
                 dirIdx, files, fileIdx, renamedCount, skippedCount, errorCount,
                 totalStats, awaited, log>>

\* main after its loop: the total statistics are printed.
TotalStatistics ==
  /\ pc = "directories" /\ dirIdx > Len(directories)
  /\ pc' = "done"
  /\ UNCHANGED <<currentYear, run, fn, arg, out, argv, disk, dryRun, debugMode, directories,
                 dirIdx, files, fileIdx, renamedCount, skippedCount, errorCount,
                 totalStats, awaited, log>>

\* fs.access succeeds; processDirectory awaits fs.readdir.
AccessOk ==
  /\ pc = "access" /\ exists(directory)
  /\ pc' = "readdir"
  /\ UNCHANGED <<currentYear, run, fn, arg, out, argv, disk, dryRun, debugMode, directories,
                 dirIdx, files, fileIdx, renamedCount, skippedCount, errorCount,
                 totalStats, awaited, log>>

\* fs.access throws: "Directory does not exist", and processDirectory returns.
AccessThrows ==
  /\ pc = "access" /\ ~exists(directory)
  /\ pc' = "directories" /\ dirIdx' = dirIdx + 1
  /\ UNCHANGED <<currentYear, run, fn, arg, out, argv, disk, dryRun, debugMode, directories,
                 files, fileIdx, renamedCount, skippedCount, errorCount, totalStats,
                 awaited, log>>

\* fs.readdir lists the directory, in some order; the counters start at 0.
ReaddirOk ==
  /\ pc = "readdir" /\ exists(directory) /\ disk[directory].isDirectory
  /\ files' \in Listings(entriesOf(directory))
  /\ fileIdx' = 1
  /\ renamedCount' = 0 /\ skippedCount' = 0 /\ errorCount' = 0
  /\ pc' = "files"
  /\ UNCHANGED <<currentYear, run, fn, arg, out, argv, disk, dryRun, debugMode, directories,
                 dirIdx, totalStats, awaited, log>>

\* fs.readdir throws (the path is not a directory): the outer catch reports
\* it and processDirectory returns.
ReaddirThrows ==
  /\ pc = "readdir" /\ ~(exists(directory) /\ disk[directory].isDirectory)
  /\ pc' = "directories" /\ dirIdx' = dirIdx + 1
  /\ UNCHANGED <<currentYear, run, fn, arg, out, argv, disk, dryRun, debugMode, directories,
                 files, fileIdx, renamedCount, skippedCount, errorCount, totalStats,
                 awaited, log>>

\* The loop passes over the script itself and hidden files.
SkipByName ==
  /\ pc = "files" /\ fileIdx <= Len(files) /\ skippedByName(oldFilename)
  /\ fileIdx' = fileIdx + 1
  /\ UNCHANGED <<currentYear, run, fn, arg, out, argv, disk, pc, dryRun, debugMode,
                 directories, dirIdx, files, renamedCount, skippedCount, errorCount,
                 totalStats, awaited, log>>

\* The loop awaits fs.stat of the next file.
Stat ==
  /\ pc = "files" /\ fileIdx <= Len(files) /\ ~skippedByName(oldFilename)
  /\ pc' = "stat"
  /\ UNCHANGED <<currentYear, run, fn, arg, out, argv, disk, dryRun, debugMode, directories,
                 dirIdx, files, fileIdx, renamedCount, skippedCount, errorCount,
                 totalStats, awaited, log>>

\* After the last file the summary is printed and processDirectory returns.
Summary ==
  /\ pc = "files" /\ fileIdx > Len(files)
  /\ pc' = "directories" /\ dirIdx' = dirIdx + 1
  /\ UNCHANGED <<currentYear, run, fn, arg, out, argv, disk, dryRun, debugMode, directories,
                 files, fileIdx, renamedCount, skippedCount, errorCount, totalStats,
                 awaited, log>>

\* fs.stat throws and the error reaches the catch of the directory, which
\* ends the loop over its files (a variant).
StatThrowsEndsDirectory ==
  /\ pc = "stat" /\ statOf(directory, oldFilename) = "ENOENT"
  /\ countError
  /\ log' = Append(log, Reported("error", Decision("error", "stat", NULL, "")))
  /\ dirIdx' = dirIdx + 1 /\ pc' = "directories"
  /\ UNCHANGED <<currentYear, run, fn, arg, out, argv, disk, dryRun, debugMode, directories,
                 fileIdx, files, awaited>>

\* fs.stat throws: the catch of the file counts an error.
StatThrows ==
  /\ pc = "stat" /\ statOf(directory, oldFilename) = "ENOENT"
  /\ countError
  /\ log' = Append(log, Reported("error", Decision("error", "stat", NULL, "")))
  /\ fileIdx' = fileIdx + 1 /\ pc' = "files"
  /\ UNCHANGED <<currentYear, run, fn, arg, out, argv, disk, dryRun, debugMode, directories,
                 dirIdx, files, awaited>>

\* Directories are passed over.
StatDirectory ==
  /\ pc = "stat" /\ statOf(directory, oldFilename) = "dir"
  /\ fileIdx' = fileIdx + 1 /\ pc' = "files"
  /\ UNCHANGED <<currentYear, run, fn, arg, out, argv, disk, dryRun, debugMode, directories,
                 dirIdx, files, renamedCount, skippedCount, errorCount, totalStats,
                 awaited, log>>

\* A regular file: the date is extracted and validated and the new name built;
\* the file is counted as an error or as skipped, or its rename is reported
\* (dry run) or awaited.
StatFile ==
  /\ pc = "stat" /\ statOf(directory, oldFilename) = "file"
  /\ \E decision \in {processFile(oldFilename)} :
       IF decision.outcome = "error"
       THEN /\ countError
            /\ log' = Append(log, Reported("error", decision))
            /\ fileIdx' = fileIdx + 1 /\ pc' = "files"
            /\ UNCHANGED awaited
       ELSE IF decision.outcome = "skipped"
       THEN /\ countSkipped
            /\ log' = Append(log, Reported("skipped", decision))
            /\ fileIdx' = fileIdx + 1 /\ pc' = "files"
            /\ UNCHANGED awaited
       ELSE IF dryRun
       THEN /\ countRenamed
            /\ log' = Append(log, Reported("renamed", decision))
            /\ fileIdx' = fileIdx + 1 /\ pc' = "files"
            /\ UNCHANGED awaited
       ELSE /\ awaited' = decision
            /\ pc' = "rename"
            /\ UNCHANGED <<fileIdx, renamedCount, skippedCount, errorCount, totalStats, log>>
  /\ UNCHANGED <<currentYear, run, fn, arg, out, argv, disk, dryRun, debugMode, directories,
                 dirIdx, files>>

\* fs.rename succeeds: the file has its new name, in the place of whatever
\* had that name.
RenameOk ==
  /\ pc = "rename" /\ renameError(directory, oldFilename, awaited.newFilename) = ""
  /\ disk' = renamed(directory, oldFilename, awaited.newFilename)
  /\ countRenamed
  /\ log' = Append(log, Reported("renamed", awaited))
  /\ fileIdx' = fileIdx + 1 /\ pc' = "files" /\ awaited' = NULL
  /\ UNCHANGED <<currentYear, run, fn, arg, out, argv, dryRun, debugMode, directories,
                 dirIdx, files>>

\* fs.rename throws: the catch of the file counts an error.
RenameThrows ==
  /\ pc = "rename" /\ renameError(directory, oldFilename, awaited.newFilename) # ""
  /\ countError
  /\ log' = Append(log, Reported("error", [awaited EXCEPT !.reason = "rename"]))
  /\ fileIdx' = fileIdx + 1 /\ pc' = "files" /\ awaited' = NULL
  /\ UNCHANGED <<currentYear, run, fn, arg, out, argv, disk, dryRun, debugMode, directories,
                 dirIdx, files>>

Next ==
  \/ Main
  \/ ProcessDirectory
  \/ TotalStatistics
  \/ AccessOk
  \/ AccessThrows
  \/ ReaddirOk
  \/ ReaddirThrows
  \/ SkipByName
  \/ Stat
  \/ Summary
  \/ StatThrows
  \/ StatDirectory
  \/ StatFile
  \/ RenameOk
  \/ RenameThrows

Spec == Init /\ [][Next]_vars

-----------------------------------------------------------------------------
(* The program run again on what the run before left *)

\* The directories of the repeated runs: a name to rename, a name with the
\* prefix that is not in its normal form, a file dated in the latest year, a
\* name without a date, and a name whose target is a directory.
TwiceEntries ==
  {Entry("Protokoll_2023-07-10.docx", "file"),
   Entry("2025-01-11_Protokoll.docx", "file"),
   Entry("Agenda 5.1." \o toString(MaxCurrentYear) \o ".txt", "file"),
   Entry("Notes Sep.txt", "file"),
   Entry("a 2.1.2020", "file"),
   Entry("2020-01-02 a", "dir")}

TwiceDisks ==
  {Disk(entries) : entries \in {S \in SUBSET TwiceEntries : Cardinality(S) <= MaxFiles}}

TwiceArgvs == {<<".", "--execute">>}

\* A directory of entries no run renames: a hidden file and a link to nothing.
UnchangedDisk ==
  Disk({Entry(".hidden 1.1.2020", "file"), Entry("link 1.2.2020", "dangling")})

InitTwice ==
  /\ currentYear \in CurrentYears /\ run = 1
  /\ fn = "main" /\ arg = "" /\ out = NULL
  /\ \/ argv \in Argvs /\ disk = ExampleDisk
     \/ argv \in TwiceArgvs /\ disk \in TwiceDisks
     \/ argv \in TwiceArgvs /\ disk = UnchangedDisk
  /\ NotStarted

\* The process has ended and the program is started again with the same
\* command line, in the same year or in the next one: the module-level
\* state is initialized anew, the file system is as the run before left it.
Rerun ==
  /\ pc = "done" /\ run < MaxRuns
  /\ run' = run + 1
  /\ currentYear' \in {y \in {currentYear, currentYear + 1} : y <= MaxCurrentYear}
  /\ pc' = "main" /\ dryRun' = TRUE /\ debugMode' = FALSE
  /\ directories' = <<>> /\ dirIdx' = 0 /\ files' = <<>> /\ fileIdx' = 0
  /\ renamedCount' = 0 /\ skippedCount' = 0 /\ errorCount' = 0
  /\ totalStats' = NoStats /\ awaited' = NULL
  /\ UNCHANGED <<fn, arg, out, argv, disk, log>>

NextTwice ==
  \/ Next
  \/ Rerun

SpecTwice == InitTwice /\ [][NextTwice]_vars

-----------------------------------------------------------------------------
(* The functions applied to their inputs *)

\* No run of main: the functions are applied on their own.
NoWalk == run = 1 /\ argv = <<>> /\ disk = <<>> /\ NotStarted

InitDate ==
  currentYear \in CurrentYears /\ fn = "" /\ arg \in DateTriples /\ out = NULL /\ NoWalk

ApplyIsValidDate ==
  /\ fn = ""
  /\ fn' = "isValidDate"
  /\ out' = isValidDate(toString(arg.y), padStart2(toString(arg.m)), padStart2(toString(arg.d)))
  /\ UNCHANGED <<currentYear, arg, walkVars>>

SpecDate == InitDate /\ [][ApplyIsValidDate]_vars

InitYear ==
  currentYear \in CurrentYears /\ fn = "" /\ arg \in YearStrings /\ out = NULL /\ NoWalk

ApplyNormalizeYear ==
  /\ fn = ""
  /\ fn' = "normalizeYear"
  /\ out' = normalizeYear(arg)
  /\ UNCHANGED <<currentYear, arg, walkVars>>

SpecYear == InitYear /\ [][ApplyNormalizeYear]_vars

InitExtract ==
  currentYear = MaxCurrentYear /\ fn = "" /\ arg \in Names /\ out = NULL /\ NoWalk

ApplyExtractDateFromFilename ==
  /\ fn = ""
  /\ fn' = "extractDateFromFilename"
  /\ out' = extractDateFromFilename(arg)
  /\ UNCHANGED <<currentYear, arg, walkVars>>

SpecExtract == InitExtract /\ [][ApplyExtractDateFromFilename]_vars

\* The characters cleanupFilename tells apart, and a letter.
CleanupChars == <<" ", "\t", ".", "-", "_", ",", "a">>

\* The strings of n of these characters.
RECURSIVE CleanupStrings(_)
CleanupStrings(n) ==
  IF n = 0 THEN {""}
  ELSE {s \o CleanupChars[k] : s \in CleanupStrings(n - 1), k \in 1..Len(CleanupChars)}

\* Longer names, with several of the patterns at once.
CleanupExamples ==
  {" a-.a", "-a ,_.", "a _-.a ,a", "a--__  b", "_ Protokoll - .docx", "a\t ,- -.b__",
   "KG-Treffen , Kleingruppe 1 Süd-West.doc"}

CleanupInputs == UNION {CleanupStrings(n) : n \in 0..MaxCleanupLen} \cup CleanupExamples

InitCleanup ==
  currentYear = MaxCurrentYear /\ fn = "" /\ arg \in CleanupInputs /\ out = NULL /\ NoWalk

ApplyCleanupFilename ==
  /\ fn = ""
  /\ fn' = "cleanupFilename"
  /\ out' = cleanupFilename(arg)
  /\ UNCHANGED <<currentYear, arg, walkVars>>

SpecCleanup == InitCleanup /\ [][ApplyCleanupFilename]_vars

-----------------------------------------------------------------------------
(* The shapes the specification speaks of, written without the recognizers *)

GregorianLeapYear(y) == y % 4 = 0 /\ (y % 100 # 0 \/ y % 400 = 0)

GregorianMonthLength(y, m) ==
  IF m = 2 THEN (IF GregorianLeapYear(y) THEN 29 ELSE 28)
  ELSE IF m \in {4, 6, 9, 11} THEN 30 ELSE 31

RealGregorianDate(y, m, d) == m \in 1..12 /\ d \in 1..GregorianMonthLength(y, m)

\* dddd<sep>dd<sep>dd at position i.
YmdShapeAt(s, i, sep) ==
  \A k \in 0..9 : IF k \in {4, 7} THEN Char(s, i + k) = sep ELSE Char(s, i + k) \in Digit

HasIso(s) == \E i \in 1..Len(s) : YmdShapeAt(s, i, "-")

LeftmostIso(s) == Min({i \in 1..Len(s) : YmdShapeAt(s, i, "-")})

NoYmd(s) == \A i \in 1..Len(s) : \A sep \in {"-", "_", "."} : ~YmdShapeAt(s, i, sep)

\* The number of digits (0, 1 or 2) of a range suffix -d[d] right after the
\* ten characters of the ISO date at i.
RangeSuffixLen(s, i) ==
  IF Char(s, i + 10) = "-" /\ Char(s, i + 11) \in Digit
  THEN (IF Char(s, i + 12) \in Digit THEN 2 ELSE 1)
  ELSE 0

\* d[d].m[m].y..y at i with the given field widths.
DottedShape(s, i, dl, ml, yl) ==
  /\ Digits(s, i, dl) /\ Char(s, i + dl) = "."
  /\ Digits(s, i + dl + 1, ml) /\ Char(s, i + dl + 1 + ml) = "."
  /\ Digits(s, i + dl + ml + 2, yl)

Widths == {<<1, 1>>, <<1, 2>>, <<2, 1>>, <<2, 2>>}

DottedYyyyAt(s, i) == \E w \in Widths : DottedShape(s, i, w[1], w[2], 4)

DottedShortAt(s, i) == \E w \in Widths : DottedShape(s, i, w[1], w[2], 2)

HasDottedYyyy(s) == \E i \in 1..Len(s) : DottedYyyyAt(s, i)

LeftmostDottedYyyy(s) == Min({i \in 1..Len(s) : DottedYyyyAt(s, i)})

ZeroPadded(t) == IF Len(t) = 1 THEN "0" \o t ELSE t

\* What the specification expects of the result for the day-first dotted date at i.
DottedResultIs(result, s, i) ==
  LET w == CHOOSE v \in Widths : DottedShape(s, i, v[1], v[2], 4)
      yi == i + w[1] + w[2] + 2
  IN  /\ result # NULL
      /\ result.year = SubSeq(s, yi, yi + 3)
      /\ result.month = ZeroPadded(SubSeq(s, i + w[1] + 1, i + w[1] + w[2]))
      /\ result.day = ZeroPadded(SubSeq(s, i, i + w[1] - 1))
      /\ result.restOfFilename =
           cleanupFilename(SubSeq(s, 1, i - 1) \o SubSeq(s, yi + 4, Len(s)))

DigitCount(s) == Cardinality({i \in 1..Len(s) : Char(s, i) \in Digit})

\* A vocabulary month name at i, a space and a four-digit year, these four
\* being the only digits of the name.
MonthSpaceYearAt(s, i, name) ==
  /\ MonthAt(s, i, name)
  /\ Char(s, i + Len(name)) = " "
  /\ Digits(s, i + Len(name) + 1, 4)
  /\ DigitCount(s) = 4

MonthNames == {MONTH_NAMES_PATTERN[a] : a \in 1..Len(MONTH_NAMES_PATTERN)}

\* d[d]-<month>-y..y at i: a day of dl digits that no digit precedes, a
\* vocabulary month name and a year of exactly yl digits.
HyphenatedShape(s, i, dl, name, yl) ==
  /\ Char(s, i - 1) \notin Digit
  /\ Digits(s, i, dl) /\ Char(s, i + dl) = "-"
  /\ MonthAt(s, i + dl + 1, name)
  /\ Char(s, i + dl + 1 + Len(name)) = "-"
  /\ Digits(s, i + dl + Len(name) + 2, yl)
  /\ Char(s, i + dl + Len(name) + 2 + yl) \notin Digit

HyphenatedShapes(s, yl) ==
  {h \in (1..Len(s)) \X {1, 2} \X MonthNames : HyphenatedShape(s, h[1], h[2], h[3], yl)}

\* What the specification expects of the result for the hyphenated date h of s.
HyphenatedResultIs(result, s, h, yl) ==
  LET yi == h[1] + h[2] + Len(h[3]) + 2
      yy == SubSeq(s, yi, yi + yl - 1)
  IN  /\ result # NULL
      /\ result.year = (IF yl = 2 THEN normalizeYear(yy) ELSE yy)
      /\ result.month = GERMAN_MONTHS(h[3])
      /\ result.day = ZeroPadded(SubSeq(s, h[1], h[1] + h[2] - 1))
      /\ result.restOfFilename =
           cleanupFilename(SubSeq(s, 1, h[1] - 1) \o SubSeq(s, yi + yl, Len(s)))

NoStrictNumericDate(s) == \A k \in 1..5 : patternFn(patterns[k], s) = NULL

\* The position and the length of the month token that the recognizer with
\* this matchedPattern took from the name.
MonthToken(s, matchedPattern) ==
  CASE matchedPattern = "Hyphenated Date with month name: [d]d-month-yy-yyyy" ->
         LET m == matchAtDigit(s, complexAt)
         IN  [i |-> m.i + Len(m.g[1]) + 1, n |-> Len(m.g[2])]
    [] matchedPattern = "Hyphenated Date with month name: [d]d-month-[yy]yy" ->
         LET m == matchAtDigit(s, genericAt)
         IN  [i |-> m.i + Len(m.g[1]) + 1, n |-> Len(m.g[2])]
    [] matchedPattern = "German Month Year Pattern: [d]d month [yy]yy" ->
         LET m == matchAtDigit(s, germanMonthAt)
             j == m.i + Len(m.g[1])
         IN  [i |-> CHOOSE k \in j..(j + RunLen(s, j, {"s", "S"})) :
                      MonthAt(s, k, toLowerCase(m.g[2]))
                      /\ yearLenAt(s, k + Len(m.g[2]) + RunLen(s, k + Len(m.g[2]), {"s", "S"})) # 0,
              n |-> Len(m.g[2])]
    [] matchedPattern = "Date with Month Name and Day: [d]d month [yy]yy" ->
         LET m == matchAtDigit(s, dayMonthNameAt)
             j == m.i + Len(m.g[1])
         IN  [i |-> j + RunLen(s, j, Whitespace \cup {".", "-"}), n |-> Len(m.g[2])]
    [] matchedPattern = "Date with Month Name Only: month yyyy" ->
         LET m == match(s, monthNameOnlyAt)
         IN  [i |-> m.i, n |-> Len(m.g[1])]
    [] matchedPattern = "Special Case: Day. Month Year" ->
         LET m == matchAtDigit(s, specialAt)
         IN  [i |-> m.i + Len(m.g[1]) + 2, n |-> Len(m.g[2])]
    [] OTHER -> [i |-> 0, n |-> 0]

\* The token is a whole alphabetic word of the name: no letter on either side.
WholeWord(s, token) ==
  Char(s, token.i - 1) \notin Letter /\ Char(s, token.i + token.n) \notin Letter

\* 'yyyy-mm-dd ' at the head of a name: four digits, two digits, two digits.
CanonicalPrefix(t) ==
  /\ Digits(t, 1, 4) /\ Char(t, 5) = "-" /\ Digits(t, 6, 2) /\ Char(t, 8) = "-"
  /\ Digits(t, 9, 2) /\ Char(t, 11) = " "

\* The date at the head of such a name is a real date, not after currentYear.
CanonicalDateIsReal(t) ==
  /\ 1900 <= DigitsValue(SubSeq(t, 1, 4), 4)
  /\ DigitsValue(SubSeq(t, 1, 4), 4) <= currentYear
  /\ RealGregorianDate(DigitsValue(SubSeq(t, 1, 4), 4), DigitsValue(SubSeq(t, 6, 7), 2),
                       DigitsValue(SubSeq(t, 9, 10), 2))

\* The loop is at a regular file, about to extract its date.
AtRegularFile == pc = "stat" /\ statOf(directory, oldFilename) = "file"

InvalidTriple(extracted) ==
  extracted # NULL /\ ~isValidDate(extracted.year, extracted.month, extracted.day)

\* The step counts one error, renames nothing and goes on to the next file.
ErrorAndNextFile ==
  /\ errorCount' = errorCount + 1
  /\ totalStats' = [totalStats EXCEPT !.totalErrors = @ + 1]
  /\ renamedCount' = renamedCount /\ skippedCount' = skippedCount
  /\ disk' = disk /\ awaited' = NULL
  /\ pc' = "files" /\ fileIdx' = fileIdx + 1 /\ files' = files

ResultFields == {"year", "month", "day", "restOfFilename", "matchedPattern"}

-----------------------------------------------------------------------------
(* The statements of the specification *)

\* C1: isValidDate is true of a numeric triple (y, m, d) exactly when
\* 1900 <= y <= currentYear and (y, m, d) is a real Gregorian calendar date
\* (m in 1..12, d within the month's length, 29 February in leap years only).
C1_IsValidDateIffRealDate ==
  fn = "isValidDate" =>
    (out <=> (1900 <= arg.y /\ arg.y <= currentYear /\ RealGregorianDate(arg.y, arg.m, arg.d)))

\* C1's case: 29 February 2000 (a century that is a leap year) is accepted.
C1_Witness ==
  fn = "isValidDate" /\ arg = [y |-> 2000, m |-> 2, d |-> 29] /\ out = TRUE

\* The renames reported or performed so far have well-formed targets, and no
\* file with an invalid triple is among them.
C2_Targets ==
  \A k \in 1..Len(log) :
    /\ log[k].outcome = "renamed" =>
         /\ CanonicalPrefix(log[k].newFilename)
         /\ CanonicalDateIsReal(log[k].newFilename)
         /\ log[k].newFilename = SubSeq(log[k].newFilename, 1, 11) \o log[k].result.restOfFilename
         /\ isValidDate(log[k].result.year, log[k].result.month, log[k].result.day)
    /\ InvalidTriple(log[k].result) => log[k].outcome = "error"

\* C2: every rename processDirectory performs or reports in a dry run has a
\* target 'yyyy-mm-dd ' + remainder, with four, two and two digits and a date
\* that isValidDate accepts; a file whose extracted triple fails isValidDate is
\* counted as an error, is not renamed, and the loop goes on to the next file.
C2_RenameTargetsAreValidDates ==
  /\ []C2_Targets
  /\ [][(AtRegularFile /\ InvalidTriple(extractDateFromFilename(oldFilename)))
          => ErrorAndNextFile]_vars

\* C2's case: in one directory a file with an impossible date was counted as
\* an error and a later file was renamed on disk.
C2_Witness ==
  \E j, k \in 1..Len(log) :
    /\ j < k
    /\ log[j].oldFilename = "31.02.2024 x.txt" /\ log[j].reason = "invalid date"
    /\ log[j].outcome = "error"
    /\ log[k].outcome = "renamed" /\ ~log[k].dryRun
    /\ log[k].newFilename = "2023-07-10 Protokoll.docx"
    /\ hasEntry(log[k].directory, "2023-07-10 Protokoll.docx")

\* C3: normalizeYear of a two-digit string yy is the string of 2000+yy when
\* that is not after currentYear and of 1900+yy otherwise, so it lies in
\* [1900, currentYear]; a string of another length comes back unchanged.
C3_NormalizeYearRollingPivot ==
  fn = "normalizeYear" =>
    /\ Len(arg) # 2 => out = arg
    /\ \A n \in 0..99 :
         arg = TwoDigits(n) =>
           \E v \in 1900..currentYear :
             /\ out = toString(v)
             /\ v = (IF 2000 + n <= currentYear THEN 2000 + n ELSE 1900 + n)

\* C3's case: "30" lies in the future as 2030 and becomes 1930.
C3_Witness == fn = "normalizeYear" /\ arg = "30" /\ out = "1930"

\* C4: for a name that contains dddd-dd-dd, extractDateFromFilename returns
\* the three digit groups of the leftmost such substring as year, month and
\* day, whatever else the name contains, a range suffix included; and
\* "Protokoll_2023-07-10.docx" gives the name "2023-07-10 Protokoll.docx".
C4_IsoDateWins ==
  (fn = "extractDateFromFilename" /\ HasIso(arg)) =>
    LET i == LeftmostIso(arg)
    IN  /\ out # NULL
        /\ out.year = SubSeq(arg, i, i + 3)
        /\ out.month = SubSeq(arg, i + 5, i + 6)
        /\ out.day = SubSeq(arg, i + 8, i + 9)
        /\ arg = "Protokoll_2023-07-10.docx" => newFilenameOf(out) = "2023-07-10 Protokoll.docx"

\* C4's case: the ISO date with a range suffix yields day 18, not 19.
C4_Witness ==
  /\ fn = "extractDateFromFilename" /\ arg = "2022-06-18-19 Notes.docx"
  /\ out # NULL /\ out.year = "2022" /\ out.month = "06" /\ out.day = "18"

\* C5 as claimed: when the ISO date of a name is immediately followed by a
\* range suffix -d[d], the range day stays in the cleaned remainder, so
\* "2022-06-18-19 Notes.docx" leaves "19 Notes.docx".
C5_RangeDayRetained ==
  (fn = "extractDateFromFilename" /\ HasIso(arg)
     /\ RangeSuffixLen(arg, LeftmostIso(arg)) > 0) =>
    LET i == LeftmostIso(arg)
    IN  /\ out # NULL
        /\ out.restOfFilename =
             cleanupFilename(SubSeq(arg, 1, i - 1) \o SubSeq(arg, i + 11, Len(arg)))
        /\ arg = "2022-06-18-19 Notes.docx" => out.restOfFilename = "19 Notes.docx"

\* C5 as amended: when the ISO date of a name is immediately followed by a
\* range suffix -d[d], the suffix (the hyphen and its one or two digits) is
\* removed together with the date: the remainder is the cleaned text before
\* the date and after the suffix, so "2022-06-18-19 Notes.docx" leaves
\* "Notes.docx".
C5_RangeTokenRemoved ==
  (fn = "extractDateFromFilename" /\ HasIso(arg)
     /\ RangeSuffixLen(arg, LeftmostIso(arg)) > 0) =>
    LET i == LeftmostIso(arg)
        k == RangeSuffixLen(arg, i)
    IN  /\ out # NULL
        /\ out.matchedPattern = "Standard ISO Date with Range: yyyy-mm-dd-dd"
        /\ out.restOfFilename =
             cleanupFilename(SubSeq(arg, 1, i - 1) \o SubSeq(arg, i + 11 + k, Len(arg)))
        /\ arg = "2022-06-18-19 Notes.docx" => out.restOfFilename = "Notes.docx"

\* C5's case: the range suffix of the example is removed with the date.
C5_Witness ==
  /\ fn = "extractDateFromFilename" /\ arg = "2022-06-18-19 Notes.docx"
  /\ out # NULL /\ out.restOfFilename = "Notes.docx"

\* C6: a name that contains a vocabulary month name, a space and a four-digit
\* year, with no day number before the month and no other date in it, yields
\* that year, the month's number and day "01"; "April 2021 Bericht.docx" gives
\* the name "2021-04-01 Bericht.docx".
C6_MonthYearGivesFirstOfMonth ==
  fn = "extractDateFromFilename" =>
    \A i \in 1..Len(arg) : \A name \in MonthNames :
      MonthSpaceYearAt(arg, i, name) =>
        /\ out # NULL
        /\ out.year = SubSeq(arg, i + Len(name) + 1, i + Len(name) + 4)
        /\ out.month = GERMAN_MONTHS(name)
        /\ out.day = "01"
        /\ arg = "April 2021 Bericht.docx" => newFilenameOf(out) = "2021-04-01 Bericht.docx"

\* C7: a name that contains a hyphen-joined day, vocabulary month name and
\* four-digit year, and no strict numeric date, yields that year, the month's
\* number and the day zero-padded, and the remainder is the cleaned text
\* around the date (no digit of the year stays behind); the same with a
\* two-digit year, expanded by normalizeYear.
C7_HyphenatedDayMonthYear ==
  (fn = "extractDateFromFilename" /\ NoStrictNumericDate(arg)) =>
    \A yl \in {2, 4} :
      HyphenatedShapes(arg, yl) # {} =>
        LET first == Min({h[1] : h \in HyphenatedShapes(arg, 2) \cup HyphenatedShapes(arg, 4)})
        IN  \A h \in HyphenatedShapes(arg, yl) :
              h[1] = first => HyphenatedResultIs(out, arg, h, yl)

\* C8: a month token is accepted only as a whole word of the vocabulary: the
\* month name a month-name recognizer takes from a name is never a part of a
\* longer alphabetic word (as "Mai" of "5-Mainz.txt", "Juni" of
\* "10-Junior-22.txt").
C8_MonthTokenIsWholeWord ==
  (fn = "extractDateFromFilename" /\ out # NULL) =>
    LET token == MonthToken(arg, out.matchedPattern)
    IN  token.i # 0 => WholeWord(arg, token)

\* C9 as claimed: for a name with no dddd-dd-dd, dddd_dd_dd or dddd.dd.dd that
\* contains a day-first dotted date d[d].m[m].yyyy, the result is the year,
\* the zero-padded month and day of the leftmost such date and the cleaned
\* text around it.
C9_LeftmostDottedYyyy ==
  (fn = "extractDateFromFilename" /\ NoYmd(arg) /\ HasDottedYyyy(arg)) =>
    DottedResultIs(out, arg, LeftmostDottedYyyy(arg))

\* C9 as amended: the same, for the names in which no day-first dotted date
\* with a shorter year (d[d].m[m].yy) begins before the leftmost
\* d[d].m[m].yyyy; "Protokoll - 15.03.2025.docx" gives the name
\* "2025-03-15 Protokoll.docx".
C9_LeftmostDottedDate ==
  (fn = "extractDateFromFilename" /\ NoYmd(arg) /\ HasDottedYyyy(arg)
     /\ \A j \in 1..(LeftmostDottedYyyy(arg) - 1) : ~DottedShortAt(arg, j)) =>
    /\ DottedResultIs(out, arg, LeftmostDottedYyyy(arg))
    /\ arg = "Protokoll - 15.03.2025.docx" =>
         newFilenameOf(out) = "2025-03-15 Protokoll.docx"

\* C9's case: the example of the README.
C9_Witness ==
  /\ fn = "extractDateFromFilename" /\ arg = "Protokoll - 15.03.2025.docx"
  /\ out # NULL /\ newFilenameOf(out) = "2025-03-15 Protokoll.docx"

\* What was extracted from the files seen so far is null or one record of
\* the five fields, null for a name without a digit, and a null result was
\* counted as an error.
C10_Results ==
  \A k \in 1..Len(log) :
    /\ log[k].result # NULL => DOMAIN log[k].result = ResultFields
    /\ (log[k].reason # "stat" /\ DigitCount(log[k].oldFilename) = 0) =>
         (log[k].result = NULL /\ log[k].reason = "no date")
    /\ log[k].result = NULL => (log[k].outcome = "error" /\ log[k].newFilename = "")

\* C10: extractDateFromFilename returns null or one record with year, month,
\* day, restOfFilename and matchedPattern, null for every name no recognizer
\* matches (every name without a digit among them); processDirectory then
\* counts the file as an error, renames nothing and goes on to the next file.
C10_NoDateIsAnErrorAndTheLoopGoesOn ==
  /\ []C10_Results
  /\ [][(AtRegularFile /\ extractDateFromFilename(oldFilename) = NULL)
          => ErrorAndNextFile]_vars

\* C10's case: "Notes Sep.txt" was counted as an error and the file after it
\* was renamed on disk.
C10_Witness ==
  \E j, k \in 1..Len(log) :
    /\ j < k
    /\ log[j].oldFilename = "Notes Sep.txt" /\ log[j].result = NULL
    /\ log[j].outcome = "error" /\ log[j].reason = "no date"
    /\ log[k].outcome = "renamed" /\ ~log[k].dryRun
    /\ hasEntry(log[k].directory, log[k].newFilename)

\* dddd-dd-dd at the head of a name.
PrefixedName(t) ==
  /\ Digits(t, 1, 4) /\ Char(t, 5) = "-" /\ Digits(t, 6, 2) /\ Char(t, 8) = "-"
  /\ Digits(t, 9, 2)

\* A rename was decided for the file of this report (done, reported or failed).
RenameDecided(report) == report.outcome = "renamed" \/ report.reason = "rename"

\* No name with the prefix had a rename decided, and every target of a
\* rename has the prefix.
C11_Prefixes ==
  \A k \in 1..Len(log) :
    /\ PrefixedName(log[k].oldFilename) => ~RenameDecided(log[k])
    /\ log[k].outcome = "renamed" => PrefixedName(log[k].newFilename)

\* Every rename of the runs before that of report k succeeded.
EveryRenameSucceeded(k) ==
  \A j \in 1..Len(log) : log[j].run < log[k].run => log[j].reason # "rename"

\* C11 as claimed: a name that begins with yyyy-mm-dd is never renamed, every
\* name a rename produces begins with yyyy-mm-dd, and after a run with
\* --execute in which every rename succeeded a second run over the same
\* directory decides no rename.
C11_SecondRunRenamesNothing ==
  /\ C11_Prefixes
  /\ \A k \in 1..Len(log) :
       (log[k].run > 1 /\ ~log[k].dryRun /\ EveryRenameSucceeded(k)) =>
         ~RenameDecided(log[k])

\* C11 as amended: the same, for a second run that takes place in the same
\* calendar year as the runs before it.
C11_SecondRunInTheSameYearRenamesNothing ==
  /\ C11_Prefixes
  /\ \A k \in 1..Len(log) :
       (/\ log[k].run > 1 /\ ~log[k].dryRun /\ EveryRenameSucceeded(k)
        /\ \A j \in 1..k : log[j].currentYear = log[k].currentYear) =>
         ~RenameDecided(log[k])

\* C11's case: the first run renamed a file on disk, and the second run, in
\* the same year, found the new name and skipped it as already formatted.
C11_Witness ==
  \E j, k \in 1..Len(log) :
    /\ log[j].run = 1 /\ log[k].run = 2 /\ ~log[j].dryRun
    /\ log[j].currentYear = log[k].currentYear
    /\ log[j].outcome = "renamed"
    /\ log[k].oldFilename = log[j].newFilename
    /\ log[k].outcome = "skipped" /\ log[k].reason = "formatted"
    /\ \A i \in 1..Len(log) : log[i].reason # "rename"

\* The command line has the flag --execute.
ExecuteGiven == \E k \in 1..Len(argv) : argv[k] = "--execute"

\* C12: in a run started without --execute, fs.rename is never awaited and no
\* step changes the file system, whatever was extracted from the names: every
\* directory has in every state the entries it had at the start.
C12_DryRunChangesNothing ==
  /\ [](~ExecuteGiven => (pc # "rename" /\ awaited = NULL))
  /\ [][~ExecuteGiven => disk' = disk]_vars

\* C12's case: a dry run reported a rename and the file still has its old
\* name, the new name does not exist.
C12_Witness ==
  /\ ~ExecuteGiven
  /\ \E k \in 1..Len(log) :
       /\ log[k].outcome = "renamed" /\ log[k].dryRun
       /\ hasEntry(log[k].directory, log[k].oldFilename)
       /\ ~hasEntry(log[k].directory, log[k].newFilename)

\* The command line names no directory: each argument is one of the flags.
NoDirectoryGiven == \A k \in 1..Len(argv) : argv[k] \in {"--execute", "--debug"}

\* C13: when the command line names no directory path, with no argument at
\* all or with flags only, the current directory "." is the one directory
\* main processes.
C13_CurrentDirectoryIsTheDefault ==
  (NoDirectoryGiven /\ pc # "main") => directories = <<".">>

\* fs.stat or fs.rename is about to throw for the file at hand.
FileFails ==
  \/ pc = "stat" /\ statOf(directory, oldFilename) = "ENOENT"
  \/ pc = "rename" /\ renameError(directory, oldFilename, awaited.newFilename) # ""

\* The step counts one error for the file, no rename and no skip, and leaves
\* the loop at the next entry of the same directory.
OneErrorAndNextEntry ==
  /\ errorCount' = errorCount + 1
  /\ totalStats' = [totalStats EXCEPT !.totalErrors = @ + 1]
  /\ renamedCount' = renamedCount /\ skippedCount' = skippedCount
  /\ disk' = disk
  /\ pc' = "files" /\ fileIdx' = fileIdx + 1 /\ files' = files
  /\ dirIdx' = dirIdx /\ directories' = directories

\* A directory is left after its last entry only, and the run ends after the
\* last directory only.
LoopsRunToTheirEnds ==
  /\ (pc \in {"files", "stat", "rename"} /\ dirIdx' # dirIdx) =>
       (pc = "files" /\ fileIdx > Len(files) /\ dirIdx' = dirIdx + 1)
  /\ (pc \in {"files", "stat", "rename"} /\ fileIdx' # fileIdx) => fileIdx' = fileIdx + 1
  /\ pc' = "done" => dirIdx' > Len(directories')

\* C14: when fs.stat or fs.rename throws for a file, the error counter of the
\* directory and the total error counter go up by exactly one, the renamed
\* counters stay, and the run goes on: the next entry of the directory is the
\* next to be processed, a directory is left only after its last entry and
\* the run ends only after the last directory.
C14_FileFailureDoesNotAbort ==
  /\ [][FileFails => OneErrorAndNextEntry]_vars
  /\ [][LoopsRunToTheirEnds]_vars

\* C14's case: a file failed, a later entry of the same directory was
\* processed, and so was an entry of a later directory.
C14_Witness ==
  \E j, k, l \in 1..Len(log) :
    /\ log[j].reason \in {"stat", "rename"} /\ log[j].outcome = "error"
    /\ log[k].dirIdx = log[j].dirIdx /\ log[k].fileIdx > log[j].fileIdx
    /\ log[k].outcome = "renamed"
    /\ log[l].dirIdx > log[j].dirIdx

\* C15: a directory argument that does not exist is counted in the total
\* error count of the run, and main goes on to the next directory.
C15_MissingDirectoryIsCounted ==
  [][(pc = "access" /\ ~exists(directory)) =>
       /\ totalStats'.totalErrors = totalStats.totalErrors + 1
       /\ pc' = "directories" /\ dirIdx' = dirIdx + 1 /\ directories' = directories]_vars

Separators == {".", "-", "_"} \cup Whitespace

\* s with every white space character written as a space.
RECURSIVE AsSpaces(_)
AsSpaces(s) ==
  IF s = "" THEN ""
  ELSE (IF Char(s, 1) \in Whitespace THEN " " ELSE Char(s, 1))
         \o AsSpaces(SubSeq(s, 2, Len(s)))

\* The characters of a, in their order, are among those of b.
RECURSIVE IsSubsequence(_, _)
IsSubsequence(a, b) ==
  IF a = "" THEN TRUE
  ELSE IF b = "" THEN FALSE
  ELSE IF Char(a, 1) = Char(b, 1)
  THEN IsSubsequence(SubSeq(a, 2, Len(a)), SubSeq(b, 2, Len(b)))
  ELSE IsSubsequence(a, SubSeq(b, 2, Len(b)))

\* C16: the result of cleanupFilename neither begins nor ends with '.', '-',
\* '_' or white space, has no two consecutive white space characters,
\* underscores or hyphens, no white space, hyphen or underscore immediately
\* before a '.', no white space immediately before a ','; and the characters it
\* keeps are in the order of the input (a run of white space is kept as one
\* space).
C16_CleanupFilenameResult ==
  fn = "cleanupFilename" =>
    /\ Char(out, 1) \notin Separators
    /\ Char(out, Len(out)) \notin Separators
    /\ \A i \in 1..(Len(out) - 1) :
         /\ ~(Char(out, i) \in Whitespace /\ Char(out, i + 1) \in Whitespace)
         /\ ~(Char(out, i) = "_" /\ Char(out, i + 1) = "_")
         /\ ~(Char(out, i) = "-" /\ Char(out, i + 1) = "-")
         /\ ~(Char(out, i) \in Whitespace \cup {"-", "_"} /\ Char(out, i + 1) = ".")
         /\ ~(Char(out, i) \in Whitespace /\ Char(out, i + 1) = ",")
    /\ IsSubsequence(AsSpaces(out), AsSpaces(arg))

\* C16's case: the separator at the head and the run before the dot are
\* removed.
C16_Witness ==
  fn = "cleanupFilename" /\ arg = " a-.a" /\ out = "a.a"

\* The number of files of the directories numbered in dirs that were
\* reported with the outcome.
CountOf(outcome, dirs) ==
  Cardinality({k \in 1..Len(log) : log[k].outcome = outcome /\ log[k].dirIdx \in dirs})

InTheLoopOverFiles == pc \in {"files", "stat", "rename"}

\* The totals are the sums of what was counted in each directory, the
\* counters of the directory at hand are what was counted in it, no entry
\* was counted twice and no file was renamed a second time.
C17_Counters ==
  /\ totalStats.totalRenamed = CountOf("renamed", 1..Len(directories))
  /\ totalStats.totalSkipped = CountOf("skipped", 1..Len(directories))
  /\ totalStats.totalErrors = CountOf("error", 1..Len(directories))
  /\ InTheLoopOverFiles =>
       /\ renamedCount = CountOf("renamed", {dirIdx})
       /\ skippedCount = CountOf("skipped", {dirIdx})
       /\ errorCount = CountOf("error", {dirIdx})
  /\ \A j, k \in 1..Len(log) :
       j < k =>
         /\ <<log[j].dirIdx, log[j].fileIdx>> # <<log[k].dirIdx, log[k].fileIdx>>
         /\ (log[j].outcome = "renamed" /\ ~log[j].dryRun
               /\ log[j].directory = log[k].directory
               /\ log[k].oldFilename = log[j].newFilename) => ~RenameDecided(log[k])

\* The sum of the three counters of the directory and of the three totals.
CountedInDirectory == renamedCount + skippedCount + errorCount

CountedInTotal ==
  totalStats.totalRenamed + totalStats.totalSkipped + totalStats.totalErrors

\* Each counter stays or goes up by one.
CountersStayOrStepByOne ==
  /\ renamedCount' - renamedCount \in {0, 1}
  /\ skippedCount' - skippedCount \in {0, 1}
  /\ errorCount' - errorCount \in {0, 1}
  /\ totalStats'.totalRenamed - totalStats.totalRenamed = renamedCount' - renamedCount
  /\ totalStats'.totalSkipped - totalStats.totalSkipped = skippedCount' - skippedCount
  /\ totalStats'.totalErrors - totalStats.totalErrors = errorCount' - errorCount

\* Leaving an entry: a regular file that is not passed over by its name adds
\* one to exactly one counter; a hidden file, a script and a directory add
\* nothing.  Staying at an entry adds nothing.
C17_EntryStep ==
  (InTheLoopOverFiles /\ dirIdx' = dirIdx) =>
    /\ fileIdx' \in {fileIdx, fileIdx + 1}
    /\ CountersStayOrStepByOne
    /\ fileIdx' = fileIdx =>
         (CountedInDirectory' = CountedInDirectory /\ CountedInTotal' = CountedInTotal)
    /\ fileIdx' = fileIdx + 1 =>
         IF skippedByName(oldFilename) \/ statOf(directory, oldFilename) = "dir"
         THEN CountedInDirectory' = CountedInDirectory /\ CountedInTotal' = CountedInTotal
         ELSE IF statOf(directory, oldFilename) = "file"
         THEN /\ CountedInDirectory' = CountedInDirectory + 1
              /\ CountedInTotal' = CountedInTotal + 1
         ELSE TRUE

\* C17: in every state each total of totalStats is the sum over the
\* directories processed so far of the matching counter of the directory;
\* each entry is visited once; a visited regular file that is neither hidden
\* nor a .js/.mjs/.ts file adds one to exactly one of the three counters,
\* hidden files, scripts and subdirectories add nothing; and at most one
\* rename is attempted for an entry in a run.
C17_CountersAddUp ==
  /\ []C17_Counters
  /\ [][C17_EntryStep]_vars

\* C17's case: the run ended after two directories, with files renamed,
\* skipped and counted as errors, the second directory having counted less
\* than the totals.
C17_Witness ==
  /\ pc = "done" /\ Len(directories) = 2
  /\ totalStats.totalRenamed = 1 /\ totalStats.totalSkipped = 1
  /\ totalStats.totalErrors = 2
  /\ renamedCount = 0 /\ skippedCount = 1 /\ errorCount = 1

\* No two renames performed in a directory have the same target.
C18_TargetsDiffer ==
  \A j, k \in 1..Len(log) :
    (/\ j < k /\ log[j].directory = log[k].directory
     /\ log[j].outcome = "renamed" /\ ~log[j].dryRun
     /\ log[k].outcome = "renamed" /\ ~log[k].dryRun) =>
      log[j].newFilename # log[k].newFilename

\* C18: in a run with --execute no rename has a target that is present in the
\* directory or was the target of an earlier rename of the run, so two files
\* that normalize to the same name are never both renamed to it and no file
\* is overwritten.
C18_NoRenameOntoAnExistingName ==
  /\ []C18_TargetsDiffer
  /\ [][(pc = "rename" /\ disk' # disk) => ~hasEntry(directory, awaited.newFilename)]_vars

\* The extension of a name: its last '.' and the letters and digits after it,
\* when they are one or more and reach the end of the name; "" otherwise.
ExtensionOf(s) ==
  LET dots == {i \in 1..Len(s) : Char(s, i) = "."}
      from(i) ==
        IF i < Len(s) /\ \A j \in (i + 1)..Len(s) : Char(s, j) \in Letter \cup Digit
        THEN SubSeq(s, i, Len(s)) ELSE ""
  IN  IF dots = {} THEN "" ELSE from(Max(dots))

\* C19: when a name ends in a file extension and processDirectory decides to
\* rename the file, the new name ends in the same extension, dot included,
\* also when the date is the whole of the name before the extension (as in
\* "15.03.2025.docx").
C19_ExtensionIsKept ==
  (/\ fn = "extractDateFromFilename" /\ ExtensionOf(arg) # ""
   /\ processFile(arg).outcome = "rename") =>
    endsWith(processFile(arg).newFilename, ExtensionOf(arg))

=============================================================================
